---- MODULE Spec2Model ----
(***************************************************************************)
(* Model of the Zip puzzle engine: the seeder (hashDate, createRng,        *)
(* getDifficultyForDate), the generator (findHamiltonianPath,              *)
(* selectAnchors, generatePuzzle) and the validator (validatePath).        *)
(*                                                                         *)
(* 32-bit words are pairs <<hi, lo>> of 16-bit halves, so that no          *)
(* intermediate value leaves the range of TLC's integers.          *)
(***************************************************************************)
EXTENDS Integers, Sequences, FiniteSets, TLC

VARIABLES calls, tzWest, val, fn, rooms, uuids, leaderboards, clock, req, wss, grid

\* the state outside the engine: the room store, the number of uuids handed
\* out, the leaderboards, the wall clock, the last HTTP request, the
\* websocket server and the ZipGrid component
site == <<rooms, uuids, leaderboards, clock, req, wss, grid>>

vars == <<calls, tzWest, val, fn, site>>

(***************************************************************************)
(* Word arithmetic (the |0, >>>, ^, | and Math.imul of seeder.ts).         *)
(***************************************************************************)
W16 == 256 * 256

W8 == 16 * 16

RECURSIVE Xor16(_, _)
Xor16(a, b) ==
  IF a = 0 THEN b
  ELSE IF b = 0 THEN a
  ELSE (((a % 2) + (b % 2)) % 2) + 2 * Xor16(a \div 2, b \div 2)

RECURSIVE Or16(_, _)
Or16(a, b) ==
  IF a = 0 THEN b
  ELSE IF b = 0 THEN a
  ELSE (IF a % 2 = 1 \/ b % 2 = 1 THEN 1 ELSE 0) + 2 * Or16(a \div 2, b \div 2)

RECURSIVE Pow2(_)
Pow2(n) == IF n = 0 THEN 1 ELSE 2 * Pow2(n - 1)

Add32(a, b) ==
  LET lo == a[2] + b[2]
      hi == a[1] + b[1] + (lo \div W16)
  IN  <<hi % W16, lo % W16>>

Xor32(a, b) == <<Xor16(a[1], b[1]), Xor16(a[2], b[2])>>

\* k | a for a small constant k (1 and 61 in createRng)
OrLow32(k, a) == <<a[1], Or16(k, a[2])>>

\* a >>> n for 0 < n < 16
Shr32(a, n) ==
  <<a[1] \div Pow2(n), (a[2] \div Pow2(n)) + ((a[1] % Pow2(n)) * Pow2(16 - n))>>

\* low 16 bits and the carry (bits 16..31) of the product of two 16-bit values
Mul16(x, y) ==
  LET x1 == x \div W8
      x0 == x % W8
      y1 == y \div W8
      y0 == y % W8
      m  == x1 * y0 + x0 * y1
      l  == (x0 * y0) + ((m % W8) * W8)
  IN  <<(x1 * y1 + (m \div W8) + (l \div W16)) % W16, l % W16>>

\* Math.imul: the low 32 bits of the product
Imul(a, b) ==
  LET ll == Mul16(a[2], b[2])
      hl == Mul16(a[1], b[2])
      lh == Mul16(a[2], b[1])
  IN  <<(ll[1] + hl[2] + lh[2]) % W16, ll[2]>>

\* the additive inverse modulo 2^32
Neg32(a) ==
  <<(W16 - a[1] - (IF a[2] > 0 THEN 1 ELSE 0)) % W16, (W16 - a[2]) % W16>>

\* the sign bit of the word read as a signed 32-bit integer
IsNegative32(a) == a[1] >= W16 \div 2

(***************************************************************************)
(* seeder.ts                                                               *)
(***************************************************************************)
\* one round of the loop of hashDate: hash = ((hash << 5) - hash + chr) | 0
HashChar(hash, chr) ==
  LET lo == hash[2] * 32 - hash[2] + chr
      hi == hash[1] * 32 - hash[1] + (lo \div W16)
  IN  <<hi % W16, lo % W16>>

RECURSIVE HashLoop(_, _, _)
HashLoop(hash, dateStr, i) ==
  IF i > Len(dateStr) THEN hash
  ELSE HashLoop(HashChar(hash, dateStr[i]), dateStr, i + 1)

\* hashDate returning the wrapped accumulator itself
hashDateWithoutAbs(dateStr) == HashLoop(<<0, 0>>, dateStr, 1)

\* hashDate(dateStr): Math.abs of the wrapped accumulator.  The result is
\* the word of the number returned; 2^31 itself is <<32768, 0>>.
hashDate(dateStr) ==
  LET hash == HashLoop(<<0, 0>>, dateStr, 1)
  IN  IF IsNegative32(hash) THEN Neg32(hash) ELSE hash

\* 0x6d2b79f5, the increment of mulberry32
MulberryInc == <<27947, 31221>>

\* the state after one call of the closure returned by createRng
MulberryState(s) == Add32(s, MulberryInc)

\* the numerator u of the value u / 4294967296 returned by that call
MulberryOut(s1) ==
  LET t1 == Imul(Xor32(s1, Shr32(s1, 15)), OrLow32(1, s1))
      t2 == Xor32(Add32(t1, Imul(Xor32(t1, Shr32(t1, 7)), OrLow32(61, t1))), t1)
  IN  Xor32(t2, Shr32(t2, 14))

(***************************************************************************)
(* The random source.  A source made by createRng carries the mulberry32   *)
(* state; findHamiltonianPath takes any () => number, and a source of kind *)
(* "any" may return every value of [0, 1).  RngDraw is the set of          *)
(* <<numerator, source after the call>> pairs one call can produce.        *)
(***************************************************************************)
createRng(seed) == [kind |-> "mulberry32", s |-> seed]

AnyRng == [kind |-> "any", s |-> <<0, 0>>]

\* one numerator for every value of Math.floor(rng() * n), n up to 8, and
\* for every sign of rng() - 0.5
AnyValues ==
  UNION {{<<((k * W16) + (n - 1)) \div n, 0>> : k \in 0..(n - 1)} : n \in 1..8}
    \cup {<<W16 - 1, W16 - 1>>}

RngDraw(rng) ==
  IF rng.kind = "mulberry32"
  THEN LET s1 == MulberryState(rng.s)
       IN  {<<MulberryOut(s1), [rng EXCEPT !.s = s1]>>}
  ELSE {<<u, rng>> : u \in AnyValues}

\* Math.floor(x * size) for x = u / 2^32 (exact in double arithmetic)
FloorScale(u, size) == ((u[1] * size) + ((u[2] * size) \div W16)) \div W16

\* the sign of x - 0.5 for x = u / 2^32
HalfSign(u) ==
  IF u[1] < W16 \div 2 THEN -1
  ELSE IF u = <<W16 \div 2, 0>> THEN 0
  ELSE 1

\* x < 0.3 and x < 0.7 for x = u / 2^32: the doubles 0.3 and 0.7 lie
\* strictly between 0x4CCCCCCC and 0x4CCCCCCD, 0xB3333333 and 0xB3333334
WordLeq(u, w) == u[1] < w[1] \/ (u[1] = w[1] /\ u[2] <= w[2])

BelowEasy(u) == WordLeq(u, <<19660, 52428>>)

BelowMedium(u) == WordLeq(u, <<45875, 13107>>)

(***************************************************************************)
(* getDifficultyForDate: new Date(dateStr).getDay() reads the day of week  *)
(* in local time; a date-only string is parsed as midnight UTC, so west of *)
(* Greenwich (tzWest) the local day is the day before.                     *)
(***************************************************************************)
IsDigit(ch) == ch >= 48 /\ ch <= 57

\* /^\d{4}-\d{2}-\d{2}$/.test(seedStr)
LooksLikeDate(seedStr) ==
  /\ Len(seedStr) = 10
  /\ \A i \in {1, 2, 3, 4, 6, 7, 9, 10} : IsDigit(seedStr[i])
  /\ seedStr[5] = 45
  /\ seedStr[8] = 45

DateYear(d) == (d[1] - 48) * 1000 + (d[2] - 48) * 100 + (d[3] - 48) * 10 + (d[4] - 48)

DateMonth(d) == (d[6] - 48) * 10 + (d[7] - 48)

DateDay(d) == (d[9] - 48) * 10 + (d[10] - 48)

\* days from 1970-01-01 to the civil date y-m-d
DaysFromCivil(y, m, d) ==
  LET yy  == IF m <= 2 THEN y - 1 ELSE y
      era == yy \div 400
      yoe == yy - era * 400
      mp  == IF m > 2 THEN m - 3 ELSE m + 9
      doy == ((153 * mp + 2) \div 5) + d - 1
      doe == yoe * 365 + (yoe \div 4) - (yoe \div 100) + doy
  IN  era * 146097 + doe - 719468

\* getDay() of new Date(dateStr): 0 = Sunday .. 6 = Saturday, -1 for NaN
\* (an Invalid Date: month outside 01..12 or day outside 01..31)
getDay(dateStr, west) ==
  IF ~ (DateMonth(dateStr) \in 1..12 /\ DateDay(dateStr) \in 1..31) THEN -1
  ELSE LET days == DaysFromCivil(DateYear(dateStr), DateMonth(dateStr), DateDay(dateStr))
       IN  (days + 4 - (IF west THEN 1 ELSE 0)) % 7

getDifficultyForDate(dateStr, west) ==
  LET day == getDay(dateStr, west)
  IN  IF day >= 1 /\ day <= 3 THEN [difficulty |-> "easy", size |-> 5]
      ELSE IF day >= 4 /\ day <= 5 THEN [difficulty |-> "medium", size |-> 6]
      ELSE [difficulty |-> "hard", size |-> 7]

(***************************************************************************)
(* generator: isValid, countNeighbours and the sort of the candidate moves *)
(***************************************************************************)
DIRS == <<<<0, 1>>, <<1, 0>>, <<0, -1>>, <<-1, 0>>>>

Cell(r, c) == [row |-> r, col |-> c]

\* isValid without the test of visited[row][col]
isValidIgnoringVisited(row, col, size, visited) ==
  row >= 0 /\ row < size /\ col >= 0 /\ col < size

\* visited is the set of the cells whose entry of the boolean grid is true
isValid(row, col, size, visited) ==
  row >= 0 /\ row < size /\ col >= 0 /\ col < size /\ Cell(row, col) \notin visited

countNeighbours(row, col, size, visited) ==
  Cardinality({i \in 1..Len(DIRS) : isValid(row + DIRS[i][1], col + DIRS[i][2], size, visited)})

\* the candidate moves from current, in DIRS order, each with its score
RECURSIVE NeighboursFrom(_, _, _, _)
NeighboursFrom(i, current, size, visited) ==
  IF i > Len(DIRS) THEN <<>>
  ELSE LET nr == current.row + DIRS[i][1]
           nc == current.col + DIRS[i][2]
       IN  (IF isValid(nr, nc, size, visited)
            THEN <<[row |-> nr, col |-> nc, score |-> countNeighbours(nr, nc, size, visited)]>>
            ELSE <<>>) \o NeighboursFrom(i + 1, current, size, visited)

Neighbours(current, size, visited) == NeighboursFrom(1, current, size, visited)

\* the comparator (a, b) => diff !== 0 ? diff : rng() - 0.5
\* the set of <<order, source after the call>>
Compare(a, b, rng) ==
  LET diff == a.score - b.score
  IN  IF diff # 0 THEN {<<diff, rng>>}
      ELSE {<<HalfSign(d[1]), d[2]>> : d \in RngDraw(rng)}

(* Array.prototype.sort of V8 on an array shorter than 64: the leading run  *)
(* is counted (and reversed when descending), the other elements are put   *)
(* in place by binary insertion.  Each operator yields the set of          *)
(* outcomes, one for every value the comparator's calls of rng can return. *)
ReverseRange(arr, n) ==
  [i \in 1..Len(arr) |-> IF i <= n THEN arr[n + 1 - i] ELSE arr[i]]

RECURSIVE RunFrom(_, _, _, _, _)
RunFrom(arr, idx, isDescending, runLength, rng) ==
  IF idx > Len(arr) THEN {<<runLength, rng>>}
  ELSE UNION {
         IF (isDescending /\ o[1] >= 0) \/ (~isDescending /\ o[1] < 0)
         THEN {<<runLength, o[2]>>}
         ELSE RunFrom(arr, idx + 1, isDescending, runLength + 1, o[2])
         : o \in Compare(arr[idx], arr[idx - 1], rng)}

\* the set of <<array, run length, source>>
CountAndMakeRun(arr, rng) ==
  UNION {
    LET isDescending == o[1] < 0
    IN  {<<IF isDescending THEN ReverseRange(arr, r[1]) ELSE arr, r[1], r[2]>>
           : r \in RunFrom(arr, 3, isDescending, 2, o[2])}
    : o \in Compare(arr[2], arr[1], rng)}

RECURSIVE BinarySearch(_, _, _, _, _)
BinarySearch(arr, pivot, left, right, rng) ==
  IF left >= right THEN {<<left, rng>>}
  ELSE LET mid == left + ((right - left) \div 2)
       IN  UNION {
             IF o[1] < 0 THEN BinarySearch(arr, pivot, left, mid, o[2])
             ELSE BinarySearch(arr, pivot, mid + 1, right, o[2])
             : o \in Compare(pivot, arr[mid], rng)}

\* arr with the element at index start moved to index left <= start
InsertAt(arr, start, left) ==
  [i \in 1..Len(arr) |->
     IF i = left THEN arr[start]
     ELSE IF i > left /\ i <= start THEN arr[i - 1]
     ELSE arr[i]]

RECURSIVE BinaryInsertionSort(_, _, _)
BinaryInsertionSort(arr, start, rng) ==
  IF start > Len(arr) THEN {<<arr, rng>>}
  ELSE UNION {BinaryInsertionSort(InsertAt(arr, start, r[1]), start + 1, r[2])
                : r \in BinarySearch(arr, arr[start], 1, start, rng)}

\* the candidate moves left in the order of DIRS
SortNeighboursKeepOrder(arr, rng) == {<<arr, rng>>}

\* neighbours.sort(comparator): the set of <<sorted array, source>>
SortNeighbours(arr, rng) ==
  IF Len(arr) < 2 THEN {<<arr, rng>>}
  ELSE UNION {BinaryInsertionSort(c[1], c[2] + 1, c[3]) : c \in CountAndMakeRun(arr, rng)}

(***************************************************************************)
(* selectAnchors and the tail of generatePuzzle                            *)
(***************************************************************************)
\* the value of path[idx] (idx counted from 0): reading past the end gives
\* undefined, and the anchor spread from it has neither row nor col
NoCell == [row |-> -1, col |-> -1]

PathAt(path, idx) == IF idx >= 0 /\ idx < Len(path) THEN path[idx + 1] ELSE NoCell

AnchorOf(cell, n) == [row |-> cell.row, col |-> cell.col, number |-> n]

\* RoundIdx with the loop counter running from 1
RoundIdxFromOne(i, totalCells, numAnchors) ==
  ((2 * (i + 1) * (totalCells - 1)) + (numAnchors - 1)) \div (2 * (numAnchors - 1))

\* RoundIdx with step = totalCells / (numAnchors - 1)
RoundIdxOverLength(i, totalCells, numAnchors) ==
  ((2 * i * totalCells) + (numAnchors - 1)) \div (2 * (numAnchors - 1))

\* Math.round(i * step) with step = (totalCells - 1) / (numAnchors - 1):
\* the nearest integer, a half rounded up.  The doubles step and i * step
\* round to the same integer as the exact quotient for every path of at
\* most 15 cells and for the four (totalCells, numAnchors) of generatePuzzle.
RoundIdx(i, totalCells, numAnchors) ==
  ((2 * i * (totalCells - 1)) + (numAnchors - 1)) \div (2 * (numAnchors - 1))

\* selectAnchors that leaves out an anchor whose index repeats the index of
\* the anchor before it
selectAnchorsDistinct(path, numAnchors) ==
  LET totalCells == Len(path)
      kept == {k \in 1..numAnchors :
                 k = 1 \/ RoundIdx(k - 1, totalCells, numAnchors)
                            # RoundIdx(k - 2, totalCells, numAnchors)}
  IN  IF numAnchors <= 2
      THEN <<AnchorOf(PathAt(path, 0), 1), AnchorOf(PathAt(path, totalCells - 1), 2)>>
      ELSE [n \in 1..Cardinality(kept) |->
              LET k == CHOOSE k \in kept : Cardinality({j \in kept : j <= k}) = n
              IN  AnchorOf(PathAt(path, RoundIdx(k - 1, totalCells, numAnchors)), n)]

\* selectAnchors that numbers the anchors from the end of the path
selectAnchorsFromEnd(path, numAnchors) ==
  LET totalCells == Len(path)
  IN  IF numAnchors <= 2
      THEN <<AnchorOf(PathAt(path, totalCells - 1), 1), AnchorOf(PathAt(path, 0), 2)>>
      ELSE [k \in 1..numAnchors |->
              AnchorOf(PathAt(path, RoundIdx(numAnchors - k, totalCells, numAnchors)), k)]

selectAnchors(path, numAnchors) ==
  LET totalCells == Len(path)
  IN  IF numAnchors <= 2
      THEN <<AnchorOf(PathAt(path, 0), 1), AnchorOf(PathAt(path, totalCells - 1), 2)>>
      ELSE [k \in 1..numAnchors |->
              AnchorOf(PathAt(path, RoundIdx(k - 1, totalCells, numAnchors)), k)]

\* anchorCounts[size] ?? Math.ceil(size * 1.2)
NumAnchors(size) ==
  CASE size = 5 -> 5
    [] size = 6 -> 9
    [] size = 7 -> 12
    [] size = 8 -> 15
    [] OTHER -> ((6 * size) + 4) \div 5

\* the snake path with every row running left to right
SnakePathRowByRow(size) ==
  [k \in 1..(size * size) |-> Cell((k - 1) \div size, (k - 1) % size)]

\* the snake path: row r runs left to right when r is even, else right to left
SnakePath(size) ==
  [k \in 1..(size * size) |->
     LET r == (k - 1) \div size
         c == (k - 1) % size
     IN  Cell(r, IF r % 2 = 0 THEN c ELSE size - 1 - c)]

\* size = difficulty === "easy" ? 5 : difficulty === "medium" ? 6 : 8
OverrideSize(difficulty) ==
  IF difficulty = "easy" THEN 5 ELSE IF difficulty = "medium" THEN 6 ELSE 8

\* the three bands of the random tier selection
RandomTier(rand) ==
  IF BelowEasy(rand) THEN [difficulty |-> "easy", size |-> 5]
  ELSE IF BelowMedium(rand) THEN [difficulty |-> "medium", size |-> 6]
  ELSE [difficulty |-> "hard", size |-> 8]

(***************************************************************************)
(* The calls.  calls[p] is the frame of call p: the arguments, the locals  *)
(* of generatePuzzle and of the findHamiltonianPath it is running, the     *)
(* position pc and, once pc = "done", the value returned.  deadEnds counts *)
(* the attempts of the running search that ended short of a full path;     *)
(* runs records the searches the call has finished, in order.              *)
(***************************************************************************)
NCalls == 2

\* the default maxAttempts of findHamiltonianPath and the budget of the retry
PrimaryAttempts == 20

ExtendedAttempts == 50

Calls == 1..NCalls

NoResult ==
  [kind |-> "none", id |-> <<>>, size |-> 0, anchors |-> <<>>, date |-> <<>>,
   difficulty |-> "none", path |-> <<>>, source |-> "none"]

IdleCall ==
  [op |-> "none", pc |-> "idle", seedStr |-> <<>>, override |-> "none",
   rng |-> AnyRng, difficulty |-> "none", size |-> 0,
   stage |-> "none", maxAttempts |-> 0, attempt |-> 0, deadEnds |-> 0,
   visited |-> {}, path |-> <<>>, current |-> NoCell,
   runs |-> <<>>, overlap |-> FALSE, result |-> NoResult]

\* lines 400-409 of generatePuzzle: the anchors and the Puzzle returned
PuzzleOf(c, path, source) ==
  [kind |-> "puzzle", id |-> <<"zip-">> \o c.seedStr, size |-> c.size,
   anchors |-> selectAnchors(path, NumAnchors(c.size)), date |-> c.seedStr,
   difficulty |-> c.difficulty, path |-> path, source |-> source]

\* the frame on entry to findHamiltonianPath(size, rng, maxAttempts)
EnterSearch(c, stage, maxAttempts) ==
  [c EXCEPT !.pc = "attempt", !.stage = stage, !.maxAttempts = maxAttempts,
            !.attempt = 0, !.deadEnds = 0,
            !.visited = {}, !.path = <<>>, !.current = NoCell]

\* visited, path and current are locals of one attempt
AttemptLeft(c) == [c EXCEPT !.visited = {}, !.path = <<>>, !.current = NoCell]

\* SearchReturned without the retry: the snake path follows the first null
SearchReturnedNoRetry(c, found, path) ==
  LET run == [stage |-> c.stage, maxAttempts |-> c.maxAttempts,
              attempts |-> IF found THEN c.attempt + 1 ELSE c.attempt,
              deadEnds |-> c.deadEnds, found |-> found]
      d   == [AttemptLeft(c) EXCEPT !.runs = Append(@, run)]
  IN  IF c.op = "findHamiltonianPath"
      THEN [d EXCEPT !.pc = "done",
                     !.result = [NoResult EXCEPT !.kind = IF found THEN "path" ELSE "null",
                                                 !.path = IF found THEN path ELSE <<>>,
                                                 !.size = c.size]]
      ELSE IF found
      THEN [d EXCEPT !.pc = "done", !.result = PuzzleOf(c, path, c.stage)]
      ELSE [d EXCEPT !.pc = "done", !.result = PuzzleOf(c, SnakePath(c.size), "snake")]

\* the frame after the search of stage c.stage has returned found (a path)
\* or null to its caller
SearchReturned(c, found, path) ==
  LET run == [stage |-> c.stage, maxAttempts |-> c.maxAttempts,
              attempts |-> IF found THEN c.attempt + 1 ELSE c.attempt,
              deadEnds |-> c.deadEnds, found |-> found]
      d   == [AttemptLeft(c) EXCEPT !.runs = Append(@, run)]
  IN  IF c.op = "findHamiltonianPath"
      THEN [d EXCEPT !.pc = "done",
                     !.result = [NoResult EXCEPT !.kind = IF found THEN "path" ELSE "null",
                                                 !.path = IF found THEN path ELSE <<>>,
                                                 !.size = c.size]]
      ELSE IF found
      THEN [d EXCEPT !.pc = "done", !.result = PuzzleOf(c, path, c.stage)]
      ELSE IF c.stage = "primary"
      THEN EnterSearch(d, "extended", ExtendedAttempts)
      ELSE [d EXCEPT !.pc = "done", !.result = PuzzleOf(c, SnakePath(c.size), "snake")]

\* generatePuzzle(seedStr, override) up to its first search: the set of
\* frames, one for every value rng can return in the random tier selection
GeneratePuzzleEntry(seedStr, override, rng, west) ==
  LET base == [IdleCall EXCEPT !.op = "generatePuzzle", !.seedStr = seedStr,
                               !.override = override]
      Go(tier, r) == EnterSearch([base EXCEPT !.difficulty = tier.difficulty,
                                              !.size = tier.size, !.rng = r],
                                 "primary", PrimaryAttempts)
  IN  IF override # "none"
      THEN {Go([difficulty |-> override, size |-> OverrideSize(override)], rng)}
      ELSE IF LooksLikeDate(seedStr)
      THEN {Go(getDifficultyForDate(seedStr, west), rng)}
      ELSE {Go(RandomTier(d[1]), d[2]) : d \in RngDraw(rng)}

Running(c) == c.pc \notin {"idle", "done"}

\* a synchronous call runs from entry to return with no other call between
MayEnter(p) ==
  /\ calls[p].pc = "idle"
  /\ \A q \in Calls : ~Running(calls[q])
  /\ \A q \in Calls : q < p => calls[q].pc = "done"

(***************************************************************************)
(* validator.ts                                                            *)
(***************************************************************************)
Abs(x) == IF x < 0 THEN -x ELSE x

\* isAdjacent that takes a diagonal step for a move
isAdjacentOrDiagonal(a, b) ==
  LET dr == Abs(a.row - b.row)
      dc == Abs(a.col - b.col)
  IN  dr <= 1 /\ dc <= 1 /\ (dr + dc) > 0

isAdjacent(a, b) ==
  LET dr == Abs(a.row - b.row)
      dc == Abs(a.col - b.col)
  IN  (dr = 1 /\ dc = 0) \/ (dr = 0 /\ dc = 1)

isSameCell(a, b) == a.row = b.row /\ a.col = b.col

Valid == [valid |-> TRUE, error |-> "none", args |-> <<>>, threw |-> FALSE]

\* { valid: false, error: <the message of that kind, with its arguments> }
Invalid(kind, args) == [valid |-> FALSE, error |-> kind, args |-> args, threw |-> FALSE]

\* a TypeError leaves validatePath without a result
Threw == [valid |-> FALSE, error |-> "none", args |-> <<>>, threw |-> TRUE]

\* check 2: the index of the first cell out of bounds, 0 when there is none
RECURSIVE FirstOutOfBounds(_, _, _)
FirstOutOfBounds(path, gridSize, i) ==
  IF i > Len(path) THEN 0
  ELSE IF path[i].row < 0 \/ path[i].row >= gridSize
          \/ path[i].col < 0 \/ path[i].col >= gridSize THEN i
  ELSE FirstOutOfBounds(path, gridSize, i + 1)

\* FirstSeenTwice with a set that holds the previous cell only
RECURSIVE FirstSeenTwiceInARow(_, _, _)
FirstSeenTwiceInARow(path, seen, i) ==
  IF i > Len(path) THEN 0
  ELSE IF <<path[i].row, path[i].col>> \in seen THEN i
  ELSE FirstSeenTwiceInARow(path, {<<path[i].row, path[i].col>>}, i + 1)

\* check 3: the index of the first cell whose key is already in seen
RECURSIVE FirstSeenTwice(_, _, _)
FirstSeenTwice(path, seen, i) ==
  IF i > Len(path) THEN 0
  ELSE IF <<path[i].row, path[i].col>> \in seen THEN i
  ELSE FirstSeenTwice(path, seen \cup {<<path[i].row, path[i].col>>}, i + 1)

\* check 4: the first index i (from 2) with path[i - 1], path[i] not adjacent
RECURSIVE FirstNonAdjacent(_, _)
FirstNonAdjacent(path, i) ==
  IF i > Len(path) THEN 0
  ELSE IF ~isAdjacent(path[i - 1], path[i]) THEN i
  ELSE FirstNonAdjacent(path, i + 1)

\* the anchors left in the order of the list
SortByNumberKeepOrder(anchors) == anchors

\* [...anchors].sort((a, b) => a.number - b.number): the comparator is
\* consistent, so the result is the stable sort by number
RECURSIVE SortByNumber(_)
SortByNumber(anchors) ==
  IF Len(anchors) <= 1 THEN anchors
  ELSE LET front == SortByNumber(SubSeq(anchors, 1, Len(anchors) - 1))
           last  == anchors[Len(anchors)]
           keep  == Cardinality({k \in 1..Len(front) : front[k].number <= last.number})
       IN  SubSeq(front, 1, keep) \o <<last>> \o SubSeq(front, keep + 1, Len(front))

\* ScanAnchors counting the anchors whose cell is on the path, in any order
ScanAnchorsAnyOrder(path, sortedAnchors, i, anchorIdx) ==
  Cardinality({k \in 1..Len(sortedAnchors) :
                 \E j \in 1..Len(path) : isSameCell(path[j], sortedAnchors[k])})

\* ScanAnchors reading sortedAnchors[anchorIdx] without the test of the
\* length: isSameCell then reads .row of undefined
RECURSIVE ScanAnchorsUnguarded(_, _, _, _)
ScanAnchorsUnguarded(path, sortedAnchors, i, anchorIdx) ==
  IF i > Len(path) THEN anchorIdx
  ELSE IF anchorIdx >= Len(sortedAnchors) THEN -1
  ELSE IF isSameCell(path[i], sortedAnchors[anchorIdx + 1])
  THEN ScanAnchorsUnguarded(path, sortedAnchors, i + 1, anchorIdx + 1)
  ELSE ScanAnchorsUnguarded(path, sortedAnchors, i + 1, anchorIdx)

\* check 5: the scan of the path; the value of anchorIdx after the loop.
\* sortedAnchors[anchorIdx] is read only under anchorIdx < length; a read
\* past the end gives undefined, of which isSameCell cannot read .row: the
\* scan that does so is marked by the value -1.
RECURSIVE ScanAnchors(_, _, _, _)
ScanAnchors(path, sortedAnchors, i, anchorIdx) ==
  IF i > Len(path) THEN anchorIdx
  ELSE IF anchorIdx < Len(sortedAnchors) /\ isSameCell(path[i], sortedAnchors[anchorIdx + 1])
  THEN ScanAnchors(path, sortedAnchors, i + 1, anchorIdx + 1)
  ELSE ScanAnchors(path, sortedAnchors, i + 1, anchorIdx)

\* the coverage check as path.length < totalCells
CoverageShort(path, totalCells) == Len(path) < totalCells

\* check 1: path.length !== totalCells
CoverageMismatch(path, totalCells) == Len(path) # totalCells

validatePath(path, anchors, gridSize) ==
  LET totalCells    == gridSize * gridSize
      oob           == FirstOutOfBounds(path, gridSize, 1)
      dup           == FirstSeenTwice(path, {}, 1)
      bad           == FirstNonAdjacent(path, 2)
      sortedAnchors == SortByNumber(anchors)
      anchorIdx     == ScanAnchors(path, sortedAnchors, 1, 0)
  IN  IF CoverageMismatch(path, totalCells)
      THEN Invalid("coverage", <<Len(path), totalCells>>)
      ELSE IF oob # 0 THEN Invalid("bounds", <<path[oob]>>)
      ELSE IF dup # 0 THEN Invalid("duplicate", <<path[dup]>>)
      ELSE IF bad # 0 THEN Invalid("adjacent", <<path[bad - 1], path[bad]>>)
      ELSE IF anchorIdx < 0 THEN Threw
      ELSE IF anchorIdx # Len(sortedAnchors) THEN Invalid("anchors", <<>>)
      ELSE Valid

(***************************************************************************)
(* The inputs of the calls.  Strings are sequences of UTF-16 code units.   *)
(***************************************************************************)
\* "2024-01-01" (a Monday), "2024-01-06" (a Saturday), "a", "ab"
SeedStrings ==
  { <<50, 48, 50, 52, 45, 48, 49, 45, 48, 49>>,
    <<50, 48, 50, 52, 45, 48, 49, 45, 48, 54>>,
    <<97>>,
    <<97, 98>> }

Overrides == {"none", "easy", "medium", "hard"}

\* the overrides under which a call with an open random source is explored
AnyOverrides == {"easy"}

\* "a": with the source open the seed string only names the puzzle
AnySeedStrings == {<<97>>}

\* the grid sizes and budgets of the direct calls of findHamiltonianPath
MaxSize == 3

MaxAttempts == 2

(***************************************************************************)
(* Actions                                                                 *)
(***************************************************************************)
\* generatePuzzle drawing from one source kept between the calls
CallGeneratePuzzleSharedSource(p, seedStr, override) ==
  /\ MayEnter(p)
  /\ \E c \in GeneratePuzzleEntry(seedStr, override,
                                   IF p > 1 THEN calls[p - 1].rng
                                   ELSE createRng(hashDate(seedStr)), tzWest) :
       calls' = [calls EXCEPT ![p] = c]
  /\ UNCHANGED <<tzWest, val, fn, site>>

\* generatePuzzle(seedStr, override), lines 340-383
CallGeneratePuzzle(p, seedStr, override) ==
  /\ MayEnter(p)
  /\ \E c \in GeneratePuzzleEntry(seedStr, override, createRng(hashDate(seedStr)), tzWest) :
       calls' = [calls EXCEPT ![p] = c]
  /\ UNCHANGED <<tzWest, val, fn, site>>

\* the same call with the values of its random source left open: every
\* sequence of values in [0, 1) is possible
CallGeneratePuzzleAnySource(p, seedStr, override) ==
  /\ MayEnter(p)
  /\ \E c \in GeneratePuzzleEntry(seedStr, override, AnyRng, tzWest) :
       calls' = [calls EXCEPT ![p] = c]
  /\ UNCHANGED <<tzWest, val, fn, site>>

\* findHamiltonianPath(size, rng, maxAttempts) called with any random source
CallFindHamiltonianPath(p, size, maxAttempts) ==
  /\ MayEnter(p)
  /\ LET c == EnterSearch([IdleCall EXCEPT !.op = "findHamiltonianPath", !.size = size,
                                            !.rng = AnyRng], "direct", maxAttempts)
     IN  calls' = [calls EXCEPT ![p] =
                     IF maxAttempts > 0 THEN c ELSE SearchReturned(c, FALSE, <<>>)]
  /\ UNCHANGED <<tzWest, val, fn, site>>

\* the start cells the two calls of rng at the head of an attempt can give:
\* the set of <<startRow, startCol, source after the calls>>
StartOutcomes(rng, size) ==
  UNION {{<<FloorScale(d1[1], size), FloorScale(d2[1], size), d2[2]>> : d2 \in RngDraw(d1[2])}
           : d1 \in RngDraw(rng)}

\* lines 264-273: the head of one attempt, as the frames that can follow
\* frame c.  visited has size rows, and visited[startRow][startCol] = true
\* throws when there is no row startRow.
BeginAttemptFrames(c) ==
  IF c.pc # "attempt" THEN {}
  ELSE {LET start == Cell(o[1], o[2])
        IN  IF o[1] >= 0 /\ o[1] < c.size
            THEN [c EXCEPT !.pc = "walk", !.rng = o[3], !.visited = {start},
                           !.path = <<start>>, !.current = start]
            ELSE [c EXCEPT !.pc = "done", !.rng = o[3],
                           !.result = [NoResult EXCEPT !.kind = "error"]]
          : o \in StartOutcomes(c.rng, c.size)}

BeginAttempt(p) ==
  /\ \E f \in BeginAttemptFrames(calls[p]) : calls' = [calls EXCEPT ![p] = f]
  /\ UNCHANGED <<tzWest, val, fn, site>>

\* lines 275-303: one round of the while loop that finds a candidate
MoveFrames(c) ==
  IF c.pc = "walk" /\ Len(c.path) < c.size * c.size
       /\ Len(Neighbours(c.current, c.size, c.visited)) # 0
  THEN {LET next == Cell(o[1][1].row, o[1][1].col)
        IN  [c EXCEPT !.visited = @ \cup {next}, !.path = Append(@, next),
                      !.current = next, !.rng = o[2]]
          : o \in SortNeighbours(Neighbours(c.current, c.size, c.visited), c.rng)}
  ELSE {}

Move(p) ==
  /\ \E f \in MoveFrames(calls[p]) : calls' = [calls EXCEPT ![p] = f]
  /\ UNCHANGED <<tzWest, val, fn, site>>

\* EndAttemptFrames that starts the next attempt after a dead end without
\* counting the attempt that ended
EndAttemptFramesUncounted(c) ==
  IF c.pc = "walk"
       /\ (Len(c.path) >= c.size * c.size
             \/ Len(Neighbours(c.current, c.size, c.visited)) = 0)
  THEN {IF Len(c.path) = c.size * c.size THEN SearchReturned(c, TRUE, c.path)
        ELSE [AttemptLeft(c) EXCEPT !.pc = "attempt", !.deadEnds = @ + 1]}
  ELSE {}

\* lines 275, 291, 305-308: the while loop ends (every cell visited, or a
\* dead end); the path is returned, or the next attempt is due, or the
\* budget is spent and null is returned; the caller goes on from there
EndAttemptFrames(c) ==
  IF c.pc = "walk"
       /\ (Len(c.path) >= c.size * c.size
             \/ Len(Neighbours(c.current, c.size, c.visited)) = 0)
  THEN {IF Len(c.path) = c.size * c.size THEN SearchReturned(c, TRUE, c.path)
        ELSE IF c.attempt + 1 < c.maxAttempts
        THEN [AttemptLeft(c) EXCEPT !.pc = "attempt", !.attempt = @ + 1,
                                    !.deadEnds = @ + 1]
        ELSE SearchReturned([AttemptLeft(c) EXCEPT !.attempt = @ + 1,
                                                   !.deadEnds = @ + 1], FALSE, <<>>)}
  ELSE {}

EndAttempt(p) ==
  /\ \E f \in EndAttemptFrames(calls[p]) : calls' = [calls EXCEPT ![p] = f]
  /\ UNCHANGED <<tzWest, val, fn, site>>

Search(p) == BeginAttempt(p) \/ Move(p) \/ EndAttempt(p)

\* the frames that can follow frame c when the call runs on
AloneFrames(c) == BeginAttemptFrames(c) \cup MoveFrames(c) \cup EndAttemptFrames(c)

\* the frame in which a call that runs alone from frame c returns
RECURSIVE RunAlone(_)
RunAlone(c) ==
  IF c.pc = "done" THEN c ELSE RunAlone(CHOOSE f \in AloneFrames(c) : TRUE)

\* the frame of one call of a function that reads its arguments only
NoFn ==
  [op |-> "none", pc |-> "idle", str |-> <<>>, hash |-> <<0, 0>>, path |-> <<>>,
   count |-> 0, anchors |-> <<>>, size |-> 0, levels |-> <<>>]

NoVal ==
  [pc |-> "idle", gridSize |-> 0, anchors |-> <<>>, path |-> <<>>, flaws |-> 0,
   result |-> Valid]

\* an optional number that is undefined (startedAt, finishTime)
NoTime == -1

\* new Map(): no key
NoRooms == [r \in {} |-> 0]

\* before the first request
NoReq ==
  [route |-> "none", roomId |-> "", playerId |-> 0, levelIndex |-> 0,
   date |-> <<>>, name |-> "", path |-> <<>>, timeMs |-> 0, status |-> 0, ret |-> "none",
   body |-> <<>>, emitted |-> 0, trace |-> <<>>]

\* the sockets that can connect in one run
MaxSockets == 3

SocketIds == 1..MaxSockets

\* a socket that has not connected.  isAlive is the flag of the source;
\* ticks (0, 1, or 2 for two and more), ponged and pingOpen record, for the
\* properties, the heartbeat ticks the socket has been through, whether a
\* pong has come since the last of them and whether a ping is unanswered;
\* endedBy tells what took the socket out of wss.clients
NoSocket ==
  [state |-> "none", isAlive |-> FALSE, ticks |-> 0, ponged |-> FALSE,
   pingOpen |-> FALSE, endedBy |-> "none"]

\* a websocket server with no client, the heartbeat not yet started; beat
\* is the parity of the number of heartbeat ticks
NoWss == [heartbeat |-> FALSE, beat |-> 0, sockets |-> [s \in SocketIds |-> NoSocket]]

\* no ZipGrid mounted.  completed is the path handed to onComplete since
\* the last reset, reported whether there is one
NoGrid ==
  [mounted |-> FALSE, size |-> 0, anchors |-> <<>>, path |-> <<>>,
   isComplete |-> FALSE, isDrawing |-> FALSE, reported |-> FALSE,
   completed |-> <<>>]

\* calls of generatePuzzle with the seeds of SeedStrings, one after another
Init ==
  /\ calls = [p \in Calls |-> IdleCall]
  /\ tzWest \in BOOLEAN
  /\ val = NoVal
  /\ fn = NoFn
  /\ rooms = NoRooms
  /\ uuids = 0
  /\ leaderboards = <<>>
  /\ clock = [ms |-> 0, day |-> 1]
  /\ req = NoReq
  /\ wss = NoWss
  /\ grid = NoGrid

Next ==
  \E p \in Calls :
    \/ \E seedStr \in SeedStrings, override \in Overrides :
         CallGeneratePuzzle(p, seedStr, override)
    \/ BeginAttempt(p)
    \/ Move(p)
    \/ EndAttempt(p)

Spec == Init /\ [][Next]_vars

\* one call of generatePuzzle whose random source is open, or whose seed is
\* one of SeedStrings
NextAny ==
  \/ \E seedStr \in AnySeedStrings, override \in AnyOverrides :
       CallGeneratePuzzleAnySource(1, seedStr, override)
  \/ \E seedStr \in SeedStrings, override \in Overrides :
       CallGeneratePuzzle(1, seedStr, override)
  \/ BeginAttempt(1)
  \/ Move(1)
  \/ EndAttempt(1)

InitAny == Init /\ tzWest = FALSE

SpecAny == InitAny /\ [][NextAny]_vars

\* direct calls of findHamiltonianPath with an open random source
NextPath ==
  \/ \E size \in 0..MaxSize, maxAttempts \in 0..MaxAttempts :
       CallFindHamiltonianPath(1, size, maxAttempts)
  \/ BeginAttempt(1)
  \/ Move(1)
  \/ EndAttempt(1)

SpecPath == Init /\ [][NextPath]_vars

(***************************************************************************)
(* Calls of validatePath.  val is the frame of one call: the arguments     *)
(* being put together (pc = "build") and then the result (pc = "done").    *)
(* A path is built cell by cell; a cell is regular when it is a cell of    *)
(* the grid not yet on the path and next to the last cell, and a path may  *)
(* hold at most MaxFlaws cells that are not regular.                       *)
(***************************************************************************)
MaxFlaws == 2

\* anchor lists hold at most two anchors, numbered 1 or 2
AnchorNumbers == {1, 2}

AnchorCounts == {0, 1, 2}

GridSizes == {-1, 0, 1, 2}

GridCells(size) == {Cell(r, c) : r \in 0..(size - 1), c \in 0..(size - 1)}

\* the cells of the grid and one cell beyond it on either side
PathCells(size) == GridCells(size) \cup {Cell(-1, 0), Cell(0, size)}

Anchors(size) ==
  {AnchorOf(cell, n) : cell \in GridCells(size) \cup {Cell(0, size)}, n \in AnchorNumbers}

AnchorLists(size) == UNION {[1..n -> Anchors(size)] : n \in AnchorCounts}

Regular(path, cell, size) ==
  /\ cell \in GridCells(size)
  /\ \A i \in 1..Len(path) : path[i] # cell
  /\ Len(path) > 0 => Abs(path[Len(path)].row - cell.row) + Abs(path[Len(path)].col - cell.col) = 1

ValStart(gridSize, anchors) ==
  /\ val.pc = "idle"
  /\ val' = [pc |-> "build", gridSize |-> gridSize, anchors |-> anchors, path |-> <<>>,
             flaws |-> 0, result |-> Valid]
  /\ UNCHANGED <<calls, tzWest, fn, site>>

ValAppend(cell) ==
  /\ val.pc = "build"
  /\ Len(val.path) <= val.gridSize * val.gridSize
  /\ LET flaw == IF Regular(val.path, cell, val.gridSize) THEN 0 ELSE 1
     IN  /\ val.flaws + flaw <= MaxFlaws
         /\ val' = [val EXCEPT !.path = Append(@, cell), !.flaws = @ + flaw]
  /\ UNCHANGED <<calls, tzWest, fn, site>>

\* validatePath(path, anchors, gridSize)
CallValidatePath ==
  /\ val.pc = "build"
  /\ val' = [val EXCEPT !.pc = "done",
                        !.result = validatePath(val.path, val.anchors, val.gridSize)]
  /\ UNCHANGED <<calls, tzWest, fn, site>>

NextVal ==
  \/ \E gridSize \in GridSizes : \E anchors \in AnchorLists(gridSize) :
       ValStart(gridSize, anchors)
  \/ \E cell \in PathCells(val.gridSize) : ValAppend(cell)
  \/ CallValidatePath

InitVal == Init /\ tzWest = FALSE

SpecVal == InitVal /\ [][NextVal]_vars

(***************************************************************************)
(* Calls that run to their end: the calls of SpecAny and of SpecPath.  The *)
(* steps of a call of findHamiltonianPath that is under way are taken      *)
(* sooner or later (the call is synchronous: once entered, its loop runs   *)
(* until it returns or throws).                                            *)
(***************************************************************************)
NextTerm ==
  \/ \E seedStr \in AnySeedStrings, override \in AnyOverrides :
       CallGeneratePuzzleAnySource(1, seedStr, override)
  \/ \E seedStr \in SeedStrings, override \in Overrides :
       CallGeneratePuzzle(1, seedStr, override)
  \/ \E size \in 0..MaxSize, maxAttempts \in 0..MaxAttempts :
       CallFindHamiltonianPath(1, size, maxAttempts)
  \/ BeginAttempt(1)
  \/ Move(1)
  \/ EndAttempt(1)

SpecTerm ==
  InitAny /\ [][NextTerm]_vars
    /\ WF_vars(calls[1].op = "findHamiltonianPath" /\ Search(1))

(***************************************************************************)
(* Calls that overlap: a call of generatePuzzle may be entered while       *)
(* another one is under way, the steps of the calls under way are taken in *)
(* any order, and validatePath is called in between.  The field overlap of *)
(* a frame records that the call was entered during another call.          *)
(***************************************************************************)
\* "a", "ab"
ConcSeedStrings == {<<97>>, <<97, 98>>}

ConcOverrides == {"easy"}

\* generatePuzzle entered with the state of the random source of the call
\* entered before it, where there is one
CallGeneratePuzzleOverlappingSharedSource(p, seedStr, override) ==
  /\ calls[p].pc = "idle"
  /\ \E c \in GeneratePuzzleEntry(seedStr, override,
                IF \E q \in Calls : calls[q].op # "none"
                THEN calls[CHOOSE q \in Calls : calls[q].op # "none"].rng
                ELSE createRng(hashDate(seedStr)), tzWest) :
       calls' = [calls EXCEPT ![p] =
                   [c EXCEPT !.overlap = \E q \in Calls : Running(calls[q])]]
  /\ UNCHANGED <<tzWest, val, fn, site>>

\* generatePuzzle(seedStr, override) entered whatever the other calls do
CallGeneratePuzzleOverlapping(p, seedStr, override) ==
  /\ calls[p].pc = "idle"
  /\ \E c \in GeneratePuzzleEntry(seedStr, override, createRng(hashDate(seedStr)), tzWest) :
       calls' = [calls EXCEPT ![p] =
                   [c EXCEPT !.overlap = \E q \in Calls : Running(calls[q])]]
  /\ UNCHANGED <<tzWest, val, fn, site>>

NextConc ==
  \/ \E p \in {1, 2} :
       \/ \E seedStr \in ConcSeedStrings, override \in ConcOverrides :
            CallGeneratePuzzleOverlapping(p, seedStr, override)
       \/ BeginAttempt(p)
       \/ Move(p)
       \/ EndAttempt(p)
  \/ ValStart(1, <<>>)
  \/ \E cell \in GridCells(val.gridSize) : ValAppend(cell)
  \/ CallValidatePath

InitConc == Init /\ tzWest = FALSE

SpecConc == InitConc /\ [][NextConc]_vars

(***************************************************************************)
(* Calls of the functions that read their arguments only: hashDate,        *)
(* selectAnchors, the snake path of generatePuzzle and the difficulty      *)
(* curve of createRoom.  fn is the frame of one such call.                 *)
(***************************************************************************)
MaxPathLen == 7

MaxCount == 9

\* a path of len distinct cells: the cell at index k is (0, k)
StraightPath(len) == [k \in 1..len |-> Cell(0, k - 1)]

\* selectAnchors(path, numAnchors)
CallSelectAnchors(len, numAnchors) ==
  /\ fn.pc = "idle"
  /\ fn' = [fn EXCEPT !.op = "selectAnchors", !.pc = "done",
                      !.path = StraightPath(len), !.count = numAnchors,
                      !.anchors = selectAnchors(StraightPath(len), numAnchors)]
  /\ UNCHANGED <<calls, tzWest, val, site>>

MaxSnakeSize == 6

\* lines 391-398 of generatePuzzle: the snake path of a size x size grid
CallSnakePath(size) ==
  /\ fn.pc = "idle"
  /\ fn' = [fn EXCEPT !.op = "snakePath", !.pc = "done", !.size = size,
                      !.path = SnakePath(size)]
  /\ UNCHANGED <<calls, tzWest, val, site>>

MaxStrLen == 6

\* the code units of G, Z, _, d, y and the largest code unit: "GydZG_" takes
\* the accumulator to -2^31
HashChars == {71, 90, 95, 100, 121, W16 - 1}

\* the argument of hashDate, one code unit after another
HashInput(chr) ==
  /\ fn.pc = "idle" \/ (fn.pc = "build" /\ fn.op = "hashDate")
  /\ Len(fn.str) < MaxStrLen
  /\ fn' = [fn EXCEPT !.op = "hashDate", !.pc = "build", !.str = Append(@, chr)]
  /\ UNCHANGED <<calls, tzWest, val, site>>

\* hashDate(dateStr)
CallHashDate ==
  /\ fn.pc = "idle" \/ (fn.pc = "build" /\ fn.op = "hashDate")
  /\ fn' = [fn EXCEPT !.op = "hashDate", !.pc = "done", !.hash = hashDate(fn.str)]
  /\ UNCHANGED <<calls, tzWest, val, site>>

\* lines 187-190 of createRoom: the difficulty of level i of levelCount.
\* progress = i / levelCount is below 0.3 when 10 * i < 3 * levelCount and
\* at least 0.6 when 10 * i >= 6 * levelCount (the doubles i / levelCount
\* compare with 0.3 and 0.6 as the exact quotients do for 3, 5 and 10)
LevelDifficulty(i, levelCount) ==
  IF 10 * i < 3 * levelCount THEN "easy"
  ELSE IF 10 * i >= 6 * levelCount THEN "hard"
  ELSE "medium"

\* the difficulties of the levels 0 .. levelCount - 1 in the order pushed
LevelDifficulties(levelCount) ==
  [k \in 1..levelCount |-> LevelDifficulty(k - 1, levelCount)]

\* levelCount: 3 | 5 | 10
LevelCounts == {3, 5, 10}

\* lines 181-195 of createRoom: the loop that chooses the difficulty of
\* each level
CallCreateRoomLevels(levelCount) ==
  /\ fn.pc = "idle"
  /\ fn' = [fn EXCEPT !.op = "createRoom", !.pc = "done", !.count = levelCount,
                      !.levels = LevelDifficulties(levelCount)]
  /\ UNCHANGED <<calls, tzWest, val, site>>

NextFn ==
  \/ \E len \in 0..MaxPathLen, numAnchors \in 0..MaxCount :
       CallSelectAnchors(len, numAnchors)
  \/ \E size \in 1..MaxSnakeSize : CallSnakePath(size)
  \/ \E chr \in HashChars : HashInput(chr)
  \/ CallHashDate
  \/ \E levelCount \in LevelCounts : CallCreateRoomLevels(levelCount)

InitFn == Init /\ tzWest = FALSE

SpecFn == InitFn /\ [][NextFn]_vars

(***************************************************************************)
(* The room manager and its routes.  rooms is the Map of the rooms by id.  *)
(* A room keeps, for each of its levels, the difficulty createRoom passed  *)
(* to generatePuzzle (the seed of level i is "room-<roomId>-lvl-<i>"); of  *)
(* a player it keeps the id and the progress, not the name.  Each method   *)
(* is an operator that yields the Map after the call, the value returned   *)
(* and the number of times emitRoomUpdate was called.                      *)
(***************************************************************************)
\* the room codes generateRoomCode can draw
RoomIds == {"A", "B"}

\* the number of uuids crypto.randomUUID hands out in one run
MaxPlayers == 2

PlayerIds == 1..MaxPlayers

\* the greatest value Date.now() reaches
MaxNow == 1

\* the level counts of the rooms created
RoomLevelCounts == {3}

\* the greatest levelIndex a request carries
MaxLevelIndex == 4

LevelIndexes == 0..MaxLevelIndex

\* generateRoomCode: a code not in use, or, when five draws in a row hit a
\* code in use, the code drawn last
generateRoomCode(rs) ==
  {code \in RoomIds : code \notin DOMAIN rs} \cup {code \in RoomIds : code \in DOMAIN rs}

\* rooms.set(roomId, room)
MapSet(rs, roomId, room) ==
  [r \in DOMAIN rs \cup {roomId} |-> IF r = roomId THEN room ELSE rs[r]]

NewPlayer(id) ==
  [id |-> id, currentLevel |-> 0, finished |-> FALSE, finishTime |-> NoTime]

createRoom(rs, roomId, uuid, levelCount, now) ==
  LET hostPlayer == NewPlayer(uuid)
      room == [id |-> roomId, hostId |-> hostPlayer.id,
               levels |-> LevelDifficulties(levelCount),
               players |-> <<hostPlayer>>, status |-> "waiting",
               createdAt |-> now, startedAt |-> NoTime]
  IN  [rooms |-> MapSet(rs, roomId, room), ret |-> "room", emitted |-> 1]

\* joinRoom that lets a player into a room whatever its status
joinRoomAnyStatus(rs, roomId, uuid) ==
  IF roomId \notin DOMAIN rs
  THEN [rooms |-> rs, ret |-> "null", emitted |-> 0]
  ELSE [rooms |-> [rs EXCEPT ![roomId].players = Append(@, NewPlayer(uuid))],
        ret |-> "room", emitted |-> 1]

joinRoom(rs, roomId, uuid) ==
  IF roomId \notin DOMAIN rs \/ rs[roomId].status # "waiting"
  THEN [rooms |-> rs, ret |-> "null", emitted |-> 0]
  ELSE [rooms |-> [rs EXCEPT ![roomId].players = Append(@, NewPlayer(uuid))],
        ret |-> "room", emitted |-> 1]

\* startGame that does not compare the player id with the room's hostId
startGameAnyPlayer(rs, roomId, hostPlayerId, now) ==
  IF roomId \notin DOMAIN rs
  THEN [rooms |-> rs, ret |-> "false", emitted |-> 0]
  ELSE [rooms |-> [rs EXCEPT ![roomId].status = "playing",
                             ![roomId].startedAt = now],
        ret |-> "true", emitted |-> 1]

startGame(rs, roomId, hostPlayerId, now) ==
  IF roomId \notin DOMAIN rs \/ rs[roomId].hostId # hostPlayerId
  THEN [rooms |-> rs, ret |-> "false", emitted |-> 0]
  ELSE [rooms |-> [rs EXCEPT ![roomId].status = "playing",
                             ![roomId].startedAt = now],
        ret |-> "true", emitted |-> 1]

\* room.players.find((p) => p.id === playerId): the index, 0 when none
FindPlayer(players, playerId) ==
  IF \E i \in DOMAIN players : players[i].id = playerId
  THEN CHOOSE i \in DOMAIN players :
         /\ players[i].id = playerId
         /\ \A j \in 1..(i - 1) : players[j].id # playerId
  ELSE 0

\* Advance that takes a submission for an earlier level as well
AdvanceOnEarlierLevel(player, levelIndex, levelCount, now) ==
  IF levelIndex > player.currentLevel THEN player
  ELSE IF player.currentLevel + 1 >= levelCount
  THEN [player EXCEPT !.currentLevel = @ + 1, !.finished = TRUE, !.finishTime = now]
  ELSE [player EXCEPT !.currentLevel = @ + 1]

\* lines 263-269: the player after the update of the progress
Advance(player, levelIndex, levelCount, now) ==
  IF levelIndex # player.currentLevel THEN player
  ELSE IF player.currentLevel + 1 >= levelCount
  THEN [player EXCEPT !.currentLevel = @ + 1, !.finished = TRUE, !.finishTime = now]
  ELSE [player EXCEPT !.currentLevel = @ + 1]

submitProgress(rs, roomId, playerId, levelIndex, now) ==
  IF roomId \notin DOMAIN rs THEN [rooms |-> rs, ret |-> "null", emitted |-> 0]
  ELSE
    LET room == rs[roomId]
        i    == FindPlayer(room.players, playerId)
    IN  IF i = 0 THEN [rooms |-> rs, ret |-> "null", emitted |-> 0]
        ELSE
          LET player  == Advance(room.players[i], levelIndex, Len(room.levels), now)
              players == [room.players EXCEPT ![i] = player]
              status  == IF \A j \in DOMAIN players : players[j].finished
                         THEN "finished" ELSE room.status
          IN  [rooms |-> [rs EXCEPT ![roomId].players = players,
                                    ![roomId].status = status],
               ret |-> "room",
               emitted |-> IF player.currentLevel # room.players[i].currentLevel
                                \/ status # room.status
                           THEN 1 ELSE 0]

\* what a route handler leaves behind: the request, the status of the
\* response, what the manager returned, and the calls the handler made
Request(route, roomId, playerId, levelIndex, status, out, trace) ==
  [NoReq EXCEPT !.route = route, !.roomId = roomId, !.playerId = playerId,
                !.levelIndex = levelIndex, !.status = status, !.ret = out.ret,
                !.emitted = out.emitted, !.trace = trace]

Called(name, ok) == [call |-> name, ok |-> ok]

\* the handler runs at time now: Date.now() never goes back
At(now) ==
  /\ now \in clock.ms..MaxNow
  /\ clock' = [clock EXCEPT !.ms = now]

\* POST /room/create
PostRoomCreate(levelCount, now) ==
  /\ At(now)
  /\ uuids < MaxPlayers
  /\ \E roomId \in generateRoomCode(rooms) :
       LET out == createRoom(rooms, roomId, uuids + 1, levelCount, now)
       IN  /\ rooms' = out.rooms
           /\ req' = Request("POST /room/create", roomId, uuids + 1, 0, 200, out,
                             <<Called("createRoom", TRUE)>>)
  /\ uuids' = uuids + 1
  /\ UNCHANGED <<calls, tzWest, val, fn, leaderboards, wss, grid>>

\* POST /room/join
PostRoomJoin(roomId, now) ==
  /\ At(now)
  /\ LET out == joinRoom(rooms, roomId, uuids + 1)
     IN  /\ out.ret = "null" \/ uuids < MaxPlayers
         /\ rooms' = out.rooms
         /\ uuids' = IF out.ret = "null" THEN uuids ELSE uuids + 1
         /\ req' = Request("POST /room/join", roomId,
                           IF out.ret = "null" THEN 0 ELSE uuids + 1, 0,
                           IF out.ret = "null" THEN 404 ELSE 200, out,
                           <<Called("joinRoom", out.ret # "null")>>)
  /\ UNCHANGED <<calls, tzWest, val, fn, leaderboards, wss, grid>>

\* POST /room/:id/start
PostRoomStart(roomId, hostId, now) ==
  /\ At(now)
  /\ LET out == startGame(rooms, roomId, hostId, now)
     IN  /\ rooms' = out.rooms
         /\ req' = Request("POST /room/:id/start", roomId, hostId, 0,
                           IF out.ret = "true" THEN 200 ELSE 403, out,
                           <<Called("startGame", out.ret = "true")>>)
  /\ UNCHANGED <<calls, tzWest, val, fn, uuids, leaderboards, wss, grid>>

\* POST /room/:id/progress: the body holds playerId and levelIndex, and the
\* handler calls submitProgress and toRoomSummary
PostRoomProgress(roomId, playerId, levelIndex, now) ==
  /\ At(now)
  /\ LET out == submitProgress(rooms, roomId, playerId, levelIndex, now)
     IN  /\ rooms' = out.rooms
         /\ req' = Request("POST /room/:id/progress", roomId, playerId, levelIndex,
                           IF out.ret = "null" THEN 404 ELSE 200, out,
                           <<Called("submitProgress", out.ret # "null")>>
                             \o IF out.ret = "null" THEN <<>>
                                ELSE <<Called("toRoomSummary", TRUE)>>)
  /\ UNCHANGED <<calls, tzWest, val, fn, uuids, leaderboards, wss, grid>>

\* the requests of the room routes, in any order and at any time
NextRoom ==
  \E now \in 0..MaxNow :
    \/ \E levelCount \in RoomLevelCounts : PostRoomCreate(levelCount, now)
    \/ \E roomId \in RoomIds : PostRoomJoin(roomId, now)
    \/ \E roomId \in RoomIds, hostId \in PlayerIds : PostRoomStart(roomId, hostId, now)
    \/ \E roomId \in RoomIds, playerId \in PlayerIds, levelIndex \in LevelIndexes :
         PostRoomProgress(roomId, playerId, levelIndex, now)

InitRoom == Init /\ tzWest = FALSE

SpecRoom == InitRoom /\ [][NextRoom]_vars

(***************************************************************************)
(* The leaderboard routes.  leaderboards is the Map of the entry lists by  *)
(* date; getTodayStr() is the date of the wall clock, Days[clock.day].     *)
(***************************************************************************)
\* "2024-01-01" and "2024-01-02": a Monday and a Tuesday, both 5 x 5
Days ==
  << <<50, 48, 50, 52, 45, 48, 49, 45, 48, 49>>,
     <<50, 48, 50, 52, 45, 48, 49, 45, 48, 50>> >>

\* generatePuzzle(date) run from entry to return, for each date of Days
DailyPuzzles ==
  [d \in DOMAIN Days |->
     RunAlone(CHOOSE c \in GeneratePuzzleEntry(Days[d], "none",
                                               createRng(hashDate(Days[d])), FALSE)
                : TRUE).result]

getTodayStr == Days[clock.day]

\* entries.length = 50
LeaderboardCap == 50

\* slice(0, 10)
TopShown == 10

\* the timeMs and the name a submission carries
TimeValues == {1, 2}

Names == {"n"}

\* the paths submitted: the solution of each day's puzzle, and no cell at all
SubmittedPaths == {DailyPuzzles[d].path : d \in DOMAIN Days} \cup {<<>>}

\* validatePath(path, puzzle.anchors, puzzle.size) for the puzzle of each
\* date and each of the paths submitted
Validations ==
  [d \in DOMAIN Days |->
     [path \in SubmittedPaths |->
        validatePath(path, DailyPuzzles[d].anchors, DailyPuzzles[d].size)]]

\* a day ends while its list holds at most this many entries
MaxCarried == 2

\* getLeaderboard(date): the list of the date, made empty when there is none
getLeaderboard(boards, date) ==
  IF date \in DOMAIN boards THEN boards ELSE MapSet(boards, date, <<>>)

\* sort that leaves the entries in the order of arrival
SortByTimeMsKeepOrder(entries) == entries

\* entries.sort((a, b) => a.timeMs - b.timeMs): the comparator is
\* consistent, so the result is the stable sort by timeMs
RECURSIVE SortByTimeMs(_)
SortByTimeMs(entries) ==
  IF Len(entries) <= 1 THEN entries
  ELSE LET front == SortByTimeMs(SubSeq(entries, 1, Len(entries) - 1))
           last  == entries[Len(entries)]
           keep  == Cardinality({k \in 1..Len(front) : front[k].timeMs <= last.timeMs})
       IN  SubSeq(front, 1, keep) \o <<last>> \o SubSeq(front, keep + 1, Len(front))

\* if (entries.length > 50) entries.length = 50
Truncate(entries) ==
  IF Len(entries) > LeaderboardCap THEN SubSeq(entries, 1, LeaderboardCap) ELSE entries

\* POST /leaderboard
PostLeaderboard(name, timeMs, path) ==
  LET today      == getTodayStr
      boards     == getLeaderboard(leaderboards, today)
      validation == Validations[clock.day][path]
      entries    == Append(boards[today], [name |-> name, timeMs |-> timeMs])
  IN  /\ leaderboards' =
           IF validation.valid
           THEN [boards EXCEPT ![today] = Truncate(SortByTimeMs(entries))]
           ELSE boards
      /\ req' = [NoReq EXCEPT !.route = "POST /leaderboard", !.date = today,
                              !.name = name, !.path = path, !.timeMs = timeMs, !.status = 200,
                              !.ret = IF validation.valid THEN "success"
                                      ELSE "Invalid solution",
                              !.trace = <<Called("generatePuzzle", TRUE),
                                          Called("validatePath", validation.valid)>>]
      /\ UNCHANGED <<calls, tzWest, val, fn, rooms, uuids, clock, wss, grid>>

\* GET /leaderboard
GetLeaderboard ==
  LET today   == getTodayStr
      boards  == getLeaderboard(leaderboards, today)
      entries == SortByTimeMs(boards[today])
  IN  /\ leaderboards' = [boards EXCEPT ![today] = entries]
      /\ req' = [NoReq EXCEPT !.route = "GET /leaderboard", !.date = today,
                              !.status = 200, !.ret = "entries",
                              !.body = SubSeq(entries, 1,
                                              IF Len(entries) < TopShown
                                              THEN Len(entries) ELSE TopShown)]
      /\ UNCHANGED <<calls, tzWest, val, fn, rooms, uuids, clock, wss, grid>>

\* midnight UTC: getTodayStr() gives the next date from now on
NextDay ==
  /\ clock.day < Len(Days)
  /\ getTodayStr \in DOMAIN leaderboards => Len(leaderboards[getTodayStr]) <= MaxCarried
  /\ clock' = [clock EXCEPT !.day = @ + 1]
  /\ UNCHANGED <<calls, tzWest, val, fn, rooms, uuids, leaderboards, req, wss, grid>>

NextBoard ==
  \/ \E name \in Names, timeMs \in TimeValues, path \in SubmittedPaths :
       PostLeaderboard(name, timeMs, path)
  \/ GetLeaderboard
  \/ NextDay

InitBoard == Init /\ tzWest = FALSE

SpecBoard == InitBoard /\ [][NextBoard]_vars

(***************************************************************************)
(* room-hub.ts: the heartbeat of the websocket server.  A socket is in     *)
(* wss.clients from its connection until it is closed or terminated; a     *)
(* socket whose request names no room, or an unknown one, is closed by the *)
(* connection handler and stays in wss.clients until the close completes.  *)
(***************************************************************************)
InClients(socket) == socket.state \in {"open", "closing"}

\* attachRoomHub: startHeartbeat sets the timer, once
AttachRoomHub ==
  /\ ~wss.heartbeat
  /\ wss' = [wss EXCEPT !.heartbeat = TRUE]
  /\ UNCHANGED <<calls, tzWest, val, fn, rooms, uuids, leaderboards, clock, req, grid>>

\* wss.on("connection"): isAlive = true; the socket is registered when its
\* room is found (hasRoom) and closed with code 1008 when not
Connection(s, hasRoom) ==
  /\ wss.heartbeat
  /\ wss.sockets[s].state = "none"
  /\ wss' = [wss EXCEPT !.sockets[s] =
               [NoSocket EXCEPT !.state = IF hasRoom THEN "open" ELSE "closing",
                                !.isAlive = TRUE]]
  /\ UNCHANGED <<calls, tzWest, val, fn, rooms, uuids, leaderboards, clock, req, grid>>

\* socket.on("pong")
Pong(s) ==
  /\ wss.sockets[s].state = "open"
  /\ wss' = [wss EXCEPT !.sockets[s].isAlive = TRUE, !.sockets[s].ponged = TRUE,
                        !.sockets[s].pingOpen = FALSE]
  /\ UNCHANGED <<calls, tzWest, val, fn, rooms, uuids, leaderboards, clock, req, grid>>

\* the close of a socket completes (the peer went away, or the close the
\* connection handler asked for is done)
SocketClosed(s) ==
  /\ InClients(wss.sockets[s])
  /\ wss' = [wss EXCEPT !.sockets[s].state = "gone", !.sockets[s].endedBy = "close"]
  /\ UNCHANGED <<calls, tzWest, val, fn, rooms, uuids, leaderboards, clock, req, grid>>

\* the heartbeat that pings without clearing isAlive
HeartbeatSocketPingOnly(socket) ==
  IF ~InClients(socket) THEN socket
  ELSE IF socket.isAlive = FALSE
  THEN [socket EXCEPT !.state = "gone", !.endedBy = "heartbeat"]
  ELSE [socket EXCEPT !.ponged = FALSE, !.pingOpen = TRUE,
                      !.ticks = IF @ < 2 THEN @ + 1 ELSE 2]

\* lines 54-62: what one tick of the heartbeat does to a socket
HeartbeatSocket(socket) ==
  IF ~InClients(socket) THEN socket
  ELSE IF socket.isAlive = FALSE
  THEN [socket EXCEPT !.state = "gone", !.endedBy = "heartbeat"]
  ELSE [socket EXCEPT !.isAlive = FALSE, !.ponged = FALSE, !.pingOpen = TRUE,
                      !.ticks = IF @ < 2 THEN @ + 1 ELSE 2]

\* the callback of setInterval: every socket of wss.clients in one go
HeartbeatTick ==
  /\ wss.heartbeat
  /\ wss' = [wss EXCEPT !.beat = 1 - @,
                        !.sockets = [s \in SocketIds |-> HeartbeatSocket(wss.sockets[s])]]
  /\ UNCHANGED <<calls, tzWest, val, fn, rooms, uuids, leaderboards, clock, req, grid>>

NextHub ==
  \/ AttachRoomHub
  \/ \E s \in SocketIds, hasRoom \in BOOLEAN : Connection(s, hasRoom)
  \/ \E s \in SocketIds : Pong(s)
  \/ \E s \in SocketIds : SocketClosed(s)
  \/ HeartbeatTick

InitHub == Init /\ tzWest = FALSE

SpecHub == InitHub /\ [][NextHub]_vars

(***************************************************************************)
(* ZipGrid.tsx: the path drawn on the grid.  grid is the state of one      *)
(* mounted component: the puzzle of its props, path, isComplete and the    *)
(* ref isDrawing; isShaking, which only drives an animation, is left out.  *)
(***************************************************************************)
\* isAdjacent of ZipGrid.tsx, lines 13-17
ZipIsAdjacent(a, b) ==
  LET dr == Abs(a.row - b.row)
      dc == Abs(a.col - b.col)
  IN  (dr = 1 /\ dc = 0) \/ (dr = 0 /\ dc = 1)

\* lines 63-68: the value of anchorIdx after the loop over currentPath
RECURSIVE ZipScan(_, _, _, _)
ZipScan(currentPath, sortedAnchors, i, anchorIdx) ==
  IF i > Len(currentPath) THEN anchorIdx
  ELSE IF /\ anchorIdx < Len(sortedAnchors)
          /\ currentPath[i].row = sortedAnchors[anchorIdx + 1].row
          /\ currentPath[i].col = sortedAnchors[anchorIdx + 1].col
  THEN ZipScan(currentPath, sortedAnchors, i + 1, anchorIdx + 1)
  ELSE ZipScan(currentPath, sortedAnchors, i + 1, anchorIdx)

checkCompletion(currentPath, anchors, size) ==
  IF Len(currentPath) # size * size THEN FALSE
  ELSE ZipScan(currentPath, SortByNumber(anchors), 1, 0) = Len(anchors)

Sign(x) == IF x > 0 THEN 1 ELSE IF x < 0 THEN -1 ELSE 0

\* the cells between start and end on a straight line, end included; none
\* when the line is not straight.  rStep and cStep are -1, 0 or 1, so that
\* Math.round(rStep * i) is rStep * i
getInterpolatedCells(start, end) ==
  LET dr    == end.row - start.row
      dc    == end.col - start.col
      steps == IF Abs(dr) > Abs(dc) THEN Abs(dr) ELSE Abs(dc)
  IN  IF dr # 0 /\ dc # 0 THEN <<>>
      ELSE [i \in 1..steps |-> Cell(start.row + (Sign(dr) * i), start.col + (Sign(dc) * i))]

\* the index of the first cell of path at (row, col), -1 when there is none
FindIndex(path, row, col) ==
  IF \E k \in DOMAIN path : path[k].row = row /\ path[k].col = col
  THEN (CHOOSE k \in DOMAIN path :
          /\ path[k].row = row /\ path[k].col = col
          /\ \A j \in 1..(k - 1) : ~(path[j].row = row /\ path[j].col = col)) - 1
  ELSE -1

\* lines 138-153 with the test of the adjacency left out
RECURSIVE AddStepsUnchecked(_, _, _)
AddStepsUnchecked(newPath, steps, i) ==
  IF i > Len(steps) THEN newPath
  ELSE IF FindIndex(newPath, steps[i].row, steps[i].col) = -1
  THEN AddStepsUnchecked(Append(newPath, steps[i]), steps, i + 1)
  ELSE AddStepsUnchecked(newPath, steps, i + 1)

\* lines 138-153: the steps are added one by one, each only when it is next
\* to the last cell of the path so far and not on the path
RECURSIVE AddSteps(_, _, _)
AddSteps(newPath, steps, i) ==
  IF i > Len(steps) THEN newPath
  ELSE IF /\ ZipIsAdjacent(newPath[Len(newPath)], steps[i])
          /\ FindIndex(newPath, steps[i].row, steps[i].col) = -1
  THEN AddSteps(Append(newPath, steps[i]), steps, i + 1)
  ELSE AddSteps(newPath, steps, i + 1)

\* anchors.find((a) => a.number === 1): the index, 0 when there is none
FindAnchor1(anchors) ==
  IF \E k \in DOMAIN anchors : anchors[k].number = 1
  THEN CHOOSE k \in DOMAIN anchors :
         /\ anchors[k].number = 1
         /\ \A j \in 1..(k - 1) : anchors[j].number # 1
  ELSE 0

IsAnchor1(anchors, row, col) ==
  LET k == FindAnchor1(anchors)
  IN  k # 0 /\ anchors[k].row = row /\ anchors[k].col = col

\* the updater of setPath in handleCellInteraction, lines 100-174: the new
\* path, and whether onComplete is called with it
Updater(prev, anchors, size, targetRow, targetCol) ==
  LET existingIdx == FindIndex(prev, targetRow, targetCol)
      target      == Cell(targetRow, targetCol)
      Same        == [path |-> prev, complete |-> FALSE]
      Grown(newPath) ==
        [path |-> newPath,
         complete |-> Len(newPath) > Len(prev) /\ checkCompletion(newPath, anchors, size)]
  IN  IF existingIdx # -1
      THEN IF existingIdx = Len(prev) - 1 THEN Same
           ELSE IF existingIdx = Len(prev) - 2
           THEN [Same EXCEPT !.path = SubSeq(prev, 1, existingIdx + 1)]
           ELSE Same
      ELSE IF Len(prev) = 0
      THEN IF IsAnchor1(anchors, targetRow, targetCol) THEN Grown(<<target>>)
           ELSE Same
      ELSE LET lastCell == prev[Len(prev)]
               steps    == getInterpolatedCells(lastCell, target)
           IN  IF Len(steps) > 0 THEN Grown(AddSteps(prev, steps, 1))
               ELSE IF ZipIsAdjacent(lastCell, target) THEN Grown(Append(prev, target))
               ELSE Same

\* handleCellInteraction(targetRow, targetCol) on component g
handleCellInteraction(g, targetRow, targetCol) ==
  IF g.isComplete THEN g
  ELSE LET u == Updater(g.path, g.anchors, g.size, targetRow, targetCol)
       IN  [g EXCEPT !.path = u.path,
                     !.isComplete = IF u.complete THEN TRUE ELSE @,
                     !.isDrawing = IF u.complete THEN FALSE ELSE @,
                     !.reported = IF u.complete THEN TRUE ELSE @,
                     !.completed = IF u.complete THEN u.path ELSE @]

\* the puzzles shown: the one generatePuzzle makes of a 3 x 3 and of a
\* 4 x 4 snake path, and the daily puzzle of the first of Days
SmallPuzzle(size) ==
  [size |-> size, anchors |-> selectAnchors(SnakePath(size), NumAnchors(size))]

GridPuzzles ==
  {SmallPuzzle(3), SmallPuzzle(4),
   [size |-> DailyPuzzles[1].size, anchors |-> DailyPuzzles[1].anchors]}

\* the component is mounted with a puzzle
Mount(puzzle) ==
  /\ ~grid.mounted
  /\ grid' = [NoGrid EXCEPT !.mounted = TRUE, !.size = puzzle.size,
                            !.anchors = puzzle.anchors]
  /\ UNCHANGED <<calls, tzWest, val, fn, rooms, uuids, leaderboards, clock, req, wss>>

\* handlePointerDown on the cell getCellFromPoint gives: a cell of the grid
handlePointerDown(row, col) ==
  /\ grid.mounted /\ ~grid.isComplete
  /\ grid' =
       IF Len(grid.path) = 0 /\ ~IsAnchor1(grid.anchors, row, col)
       THEN [grid EXCEPT !.isDrawing = TRUE]
       ELSE handleCellInteraction([grid EXCEPT !.isDrawing = TRUE], row, col)
  /\ UNCHANGED <<calls, tzWest, val, fn, rooms, uuids, leaderboards, clock, req, wss>>

handlePointerMove(row, col) ==
  /\ grid.mounted /\ grid.isDrawing /\ ~grid.isComplete
  /\ grid' = handleCellInteraction(grid, row, col)
  /\ UNCHANGED <<calls, tzWest, val, fn, rooms, uuids, leaderboards, clock, req, wss>>

handlePointerUp ==
  /\ grid.mounted
  /\ grid' = [grid EXCEPT !.isDrawing = FALSE]
  /\ UNCHANGED <<calls, tzWest, val, fn, rooms, uuids, leaderboards, clock, req, wss>>

handleUndo ==
  /\ grid.mounted /\ ~grid.isComplete
  /\ grid' = [grid EXCEPT !.path = IF Len(@) > 0 THEN SubSeq(@, 1, Len(@) - 1) ELSE @]
  /\ UNCHANGED <<calls, tzWest, val, fn, rooms, uuids, leaderboards, clock, req, wss>>

handleReset ==
  /\ grid.mounted
  /\ grid' = [grid EXCEPT !.path = <<>>, !.isComplete = FALSE, !.isDrawing = FALSE,
                          !.reported = FALSE, !.completed = <<>>]
  /\ UNCHANGED <<calls, tzWest, val, fn, rooms, uuids, leaderboards, clock, req, wss>>

NextGrid ==
  \/ \E puzzle \in GridPuzzles : Mount(puzzle)
  \/ \E cell \in GridCells(grid.size) : handlePointerDown(cell.row, cell.col)
  \/ \E cell \in GridCells(grid.size) : handlePointerMove(cell.row, cell.col)
  \/ handlePointerUp
  \/ handleUndo
  \/ handleReset

InitGrid == Init /\ tzWest = FALSE

SpecGrid == InitGrid /\ [][NextGrid]_vars

(***************************************************************************)
(* Properties                                                              *)
(***************************************************************************)
GridDistance(a, b) == Abs(a.row - b.row) + Abs(a.col - b.col)

InGrid(cell, size) ==
  cell.row >= 0 /\ cell.row < size /\ cell.col >= 0 /\ cell.col < size

\* path visits every cell of the size x size grid exactly once, by steps of
\* one cell along a row or a column
IsHamiltonianPath(path, size) ==
  /\ Len(path) = size * size
  /\ \A i \in 1..Len(path) : InGrid(path[i], size)
  /\ \A i, j \in 1..Len(path) : i < j => path[i] # path[j]
  /\ \A i \in 2..Len(path) : GridDistance(path[i - 1], path[i]) = 1

Returned(p) == calls[p].op = "generatePuzzle" /\ calls[p].pc = "done"

C2_NeverExhausted ==
  \A p \in Calls :
    LET c == calls[p]
    IN  c.op = "generatePuzzle" =>
          /\ c.pc = "done" => c.result.kind = "puzzle"
          /\ Len(c.runs) <= 2
          /\ c.stage = "primary" => (c.maxAttempts = 20 /\ (Running(c) => c.runs = <<>>))
          /\ (c.stage = "extended" /\ Running(c)) => (c.maxAttempts = 50 /\ Len(c.runs) = 1)
          /\ Len(c.runs) >= 1 =>
               (c.runs[1].stage = "primary" /\ c.runs[1].maxAttempts = 20)
          /\ Len(c.runs) = 2 =>
               (c.runs[2].stage = "extended" /\ c.runs[2].maxAttempts = 50
                  /\ ~c.runs[1].found)
          /\ \A k \in 1..Len(c.runs) :
               ~c.runs[k].found => c.runs[k].attempts = c.runs[k].maxAttempts
          /\ (c.pc = "done" /\ c.result.source = "snake") =>
               (Len(c.runs) = 2 /\ ~c.runs[1].found /\ ~c.runs[2].found)
          /\ (c.pc = "done" /\ c.result.source # "snake") =>
               (c.runs[Len(c.runs)].found /\ c.runs[Len(c.runs)].stage = c.result.source)

\* a call returned the puzzle of the snake path after 20 and 50 attempts
C2_Witness ==
  /\ Returned(1)
  /\ calls[1].result.kind = "puzzle"
  /\ calls[1].result.source = "snake"
  /\ calls[1].runs[1].attempts = 20
  /\ calls[1].runs[2].attempts = 50

\* C3: every Puzzle returned by generatePuzzle has at least 2 anchors,
\* numbered 1..K in list order, each on a cell of the grid, no two on the
\* same cell.
C3_PuzzleInvariant ==
  \A p \in Calls :
    Returned(p) =>
      LET anchors == calls[p].result.anchors
      IN  /\ Len(anchors) >= 2
          /\ \A k \in 1..Len(anchors) : anchors[k].number = k
          /\ \A k \in 1..Len(anchors) : InGrid(anchors[k], calls[p].result.size)
          /\ \A j, k \in 1..Len(anchors) :
               j < k => ~(anchors[j].row = anchors[k].row /\ anchors[j].col = anchors[k].col)

\* a puzzle of size 8 with its 15 anchors has been returned
C3_Witness ==
  /\ Returned(1)
  /\ calls[1].result.size = 8
  /\ Len(calls[1].result.anchors) = 15

\* C4: a path returned by findHamiltonianPath (size >= 1, any random
\* source) has size * size cells, all of the grid, pairwise distinct,
\* consecutive cells one step apart along a row or a column; null is
\* returned only when each of the maxAttempts attempts ended in a dead end.
C4_PathOrDeadEnds ==
  \A p \in Calls :
    LET c == calls[p]
    IN  (c.op = "findHamiltonianPath" /\ c.pc = "done" /\ c.size >= 1) =>
          /\ c.result.kind \in {"path", "null"}
          /\ c.result.kind = "path" => IsHamiltonianPath(c.result.path, c.size)
          /\ c.result.kind = "null" =>
               (c.runs[1].attempts = c.maxAttempts /\ c.runs[1].deadEnds = c.maxAttempts)

\* a path of a 3 x 3 grid was returned by the attempt after a dead end
C4_Witness ==
  /\ calls[1].op = "findHamiltonianPath" /\ calls[1].pc = "done"
  /\ calls[1].size >= 3
  /\ calls[1].result.kind = "path"
  /\ calls[1].runs[1].deadEnds >= 1

Done == val.pc = "done"

RightLength == Len(val.path) = val.gridSize * val.gridSize

AllInGrid == \A i \in 1..Len(val.path) : InGrid(val.path[i], val.gridSize)

Repeats(path, j) == \E i \in 1..(j - 1) : path[i] = path[j]

SomeRepeat == \E j \in 1..Len(val.path) : Repeats(val.path, j)

Jumps(path, i) == GridDistance(path[i - 1], path[i]) # 1

SomeJump == \E i \in 2..Len(val.path) : Jumps(val.path, i)

AnchorCell(a) == Cell(a.row, a.col)

OnPath(path, a) == \E i \in 1..Len(path) : path[i] = AnchorCell(a)

PassedAt(path, a) ==
  CHOOSE i \in 1..Len(path) :
    path[i] = AnchorCell(a) /\ \A k \in 1..(i - 1) : path[k] # AnchorCell(a)

\* anchor i comes before anchor j: the smaller number first, and of two
\* anchors with one number the one that is earlier in the list
Before(anchors, i, j) ==
  \/ anchors[i].number < anchors[j].number
  \/ anchors[i].number = anchors[j].number /\ i < j

\* the path passes over the cell of every anchor, and over the cell of an
\* anchor before the cell of each anchor that comes after it
AnchorsInOrder(path, anchors) ==
  /\ \A i \in 1..Len(anchors) : OnPath(path, anchors[i])
  /\ \A i, j \in 1..Len(anchors) :
       Before(anchors, i, j) => PassedAt(path, anchors[i]) < PassedAt(path, anchors[j])

\* C5: validator soundness: a path that holds each cell of the grid exactly
\* once, moves one cell along a row or a column at each step and passes
\* over the anchors' cells in ascending order of their numbers is accepted
\* with valid = true and no error.
C5_Sound ==
  (Done /\ IsHamiltonianPath(val.path, val.gridSize)
        /\ AnchorsInOrder(val.path, val.anchors))
  => val.result = Valid

\* a solution of the 2 x 2 grid was accepted for two anchors on different
\* cells that the list gives with the larger number first
C5_Witness ==
  /\ Done /\ val.gridSize = 2
  /\ IsHamiltonianPath(val.path, val.gridSize)
  /\ Len(val.anchors) = 2
  /\ val.anchors[1].number > val.anchors[2].number
  /\ AnchorCell(val.anchors[1]) # AnchorCell(val.anchors[2])
  /\ AnchorsInOrder(val.path, val.anchors)
  /\ val.result = Valid

\* C6: the coverage check comes first: a path whose length is not
\* gridSize * gridSize is rejected with the coverage reason carrying the
\* two counts, whatever else is wrong with the path.
C6_CoverageFirst ==
  (Done /\ ~RightLength)
  => val.result = Invalid("coverage", <<Len(val.path), val.gridSize * val.gridSize>>)

\* a path of 3 cells of the 2 x 2 grid, with a cell out of bounds and a
\* move that is no step, was rejected with the counts 3 and 4
C6_Witness ==
  /\ Done /\ val.gridSize = 2 /\ Len(val.path) = 3
  /\ ~AllInGrid /\ SomeJump
  /\ val.result.error = "coverage"
  /\ val.result.args = <<3, 4>>

\* C7: the duplicate check: a path of the right length with all cells in
\* bounds in which a cell occurs twice is rejected with the duplicate
\* reason naming the first cell that is seen a second time, also when the
\* path has a non-adjacent move or misses an anchor.
C7_Duplicate ==
  (Done /\ RightLength /\ AllInGrid /\ SomeRepeat)
  => \E j \in 1..Len(val.path) :
       /\ Repeats(val.path, j)
       /\ \A k \in 1..(j - 1) : ~Repeats(val.path, k)
       /\ val.result = Invalid("duplicate", <<val.path[j]>>)

\* a path of the 2 x 2 grid that comes back to a cell, not by the cell just
\* before it, and so misses an anchor, was rejected as a duplicate visit
C7_Witness ==
  /\ Done /\ val.gridSize = 2 /\ RightLength /\ AllInGrid
  /\ \E j \in 3..Len(val.path) :
       Repeats(val.path, j) /\ val.path[j] # val.path[j - 1]
  /\ SomeJump
  /\ \E i \in 1..Len(val.anchors) : ~OnPath(val.path, val.anchors[i])
  /\ val.result.error = "duplicate"

\* C8: the adjacency check: a path of the right length with all cells in
\* bounds and pairwise distinct in which two consecutive cells are not one
\* step apart along a row or a column is rejected with the non-adjacent
\* reason naming the first such pair, whatever the order of the anchors.
C8_Adjacency ==
  (Done /\ RightLength /\ AllInGrid /\ ~SomeRepeat /\ SomeJump)
  => \E i \in 2..Len(val.path) :
       /\ Jumps(val.path, i)
       /\ \A k \in 2..(i - 1) : ~Jumps(val.path, k)
       /\ val.result = Invalid("adjacent", <<val.path[i - 1], val.path[i]>>)

\* a path over the four cells of the 2 x 2 grid with a diagonal step, and
\* with its anchors out of order, was rejected as a non-adjacent move
C8_Witness ==
  /\ Done /\ val.gridSize = 2 /\ RightLength /\ AllInGrid /\ ~SomeRepeat
  /\ \E i \in 2..Len(val.path) :
       Abs(val.path[i - 1].row - val.path[i].row) = 1
         /\ Abs(val.path[i - 1].col - val.path[i].col) = 1
  /\ Len(val.anchors) = 2
  /\ ~AnchorsInOrder(val.path, val.anchors)
  /\ val.result.error = "adjacent"

\* C9: the anchor-order check: a path that passes the coverage, bounds,
\* duplicate and adjacency checks is accepted exactly when the anchors,
\* taken in ascending order of their numbers, are met one after another
\* along the path; otherwise it is rejected with the anchors reason.
C9_AnchorOrder ==
  (Done /\ IsHamiltonianPath(val.path, val.gridSize))
  => /\ val.result.valid <=> AnchorsInOrder(val.path, val.anchors)
     /\ ~val.result.valid => val.result = Invalid("anchors", <<>>)

\* a solution of the 2 x 2 grid that passes over anchor 2 before anchor 1,
\* both on the path, was rejected with the anchors reason
C9_Witness ==
  /\ Done /\ val.gridSize = 2
  /\ IsHamiltonianPath(val.path, val.gridSize)
  /\ Len(val.anchors) = 2
  /\ val.anchors[1].number < val.anchors[2].number
  /\ OnPath(val.path, val.anchors[1]) /\ OnPath(val.path, val.anchors[2])
  /\ PassedAt(val.path, val.anchors[2]) < PassedAt(val.path, val.anchors[1])
  /\ val.result = Invalid("anchors", <<>>)

\* C10: validatePath never raises: for every path, every anchor list (the
\* empty one too) and every gridSize (0 and negative too) it returns a
\* result, and the error is there exactly when valid is false.
C10_NeverRaises ==
  Done => /\ ~val.result.threw
          /\ (val.result.error # "none") <=> ~val.result.valid

\* for a negative grid size and the empty anchor list, a path of one cell
\* was rejected with a result that carries the error
C10_Witness ==
  /\ Done /\ val.gridSize < 0 /\ val.anchors = <<>>
  /\ Len(val.path) = 1
  /\ ~val.result.valid /\ val.result.error = "bounds" /\ ~val.result.threw

SelectDone == fn.op = "selectAnchors" /\ fn.pc = "done"

\* the index in path of the cell of anchor a, -1 when it is no cell of path
IndexOf(path, a) ==
  IF \E i \in 1..Len(path) : path[i] = AnchorCell(a)
  THEN (CHOOSE i \in 1..Len(path) : path[i] = AnchorCell(a)) - 1
  ELSE -1

\* C11: for every non-empty path and every count >= 2, selectAnchors puts
\* anchor 1 on path[0] and the anchor with the highest number on
\* path[path.length - 1]: the rounded index of the first anchor is 0 and
\* that of the last anchor is path.length - 1.
C11_Endpoints ==
  (SelectDone /\ Len(fn.path) >= 1 /\ fn.count >= 2)
  => LET K == Len(fn.anchors)
         L == Len(fn.path)
     IN  /\ fn.anchors[1] = AnchorOf(fn.path[1], 1)
         /\ fn.anchors[K] = AnchorOf(fn.path[L], K)
         /\ \A k \in 1..K : fn.anchors[k].number <= K
         /\ fn.count > 2 => /\ RoundIdx(0, L, fn.count) = 0
                            /\ RoundIdx(fn.count - 1, L, fn.count) = L - 1

\* four anchors were placed on a path of six cells, the first on the first
\* cell and the fourth on the last
C11_Witness ==
  /\ SelectDone /\ Len(fn.path) = 6 /\ fn.count = 4
  /\ AnchorCell(fn.anchors[1]) = fn.path[1]
  /\ AnchorCell(fn.anchors[4]) = fn.path[6]

\* C12: selectAnchors returns anchors numbered 1..K in list order, with K
\* the requested count when it is above 2 and K = 2 otherwise; on a
\* non-empty path every anchor is on a cell of the path and the indices of
\* the cells never decrease along the list, also when rounding gives two
\* anchors the same index.
C12_Numbering ==
  SelectDone
  => LET K == Len(fn.anchors)
     IN  /\ K = (IF fn.count > 2 THEN fn.count ELSE 2)
         /\ \A k \in 1..K : fn.anchors[k].number = k
         /\ Len(fn.path) >= 1 =>
              /\ \A k \in 1..K : IndexOf(fn.path, fn.anchors[k]) >= 0
              /\ \A k \in 1..(K - 1) :
                   IndexOf(fn.path, fn.anchors[k]) <= IndexOf(fn.path, fn.anchors[k + 1])

\* five anchors were asked for on a path of three cells: two of them share
\* a cell and the list still has the numbers 1..5
C12_Witness ==
  /\ SelectDone /\ Len(fn.path) = 3 /\ fn.count = 5
  /\ Len(fn.anchors) = 5
  /\ \E k \in 1..4 : AnchorCell(fn.anchors[k]) = AnchorCell(fn.anchors[k + 1])
  /\ fn.anchors[5].number = 5

\* C13: findHamiltonianPath handles degenerate grids without raising an
\* error: with size 1 it returns the path of the single cell (0, 0), and
\* with size 0 and maxAttempts >= 1 it returns an empty path.
C13_Degenerate ==
  \A p \in Calls :
    LET c == calls[p]
    IN  (c.op = "findHamiltonianPath" /\ c.pc = "done" /\ c.maxAttempts >= 1) =>
          /\ c.size = 1 => (c.result.kind = "path" /\ c.result.path = <<Cell(0, 0)>>)
          /\ c.size = 0 => (c.result.kind = "path" /\ c.result.path = <<>>)

\* C14: the fallback path of generatePuzzle (rows top to bottom, even rows
\* left to right, odd rows right to left) is a Hamiltonian path for every
\* size >= 1: size * size cells, every cell of the grid exactly once, and
\* consecutive cells one step apart along a row or a column, the pair that
\* crosses from one row to the next included.
C14_SnakeHamiltonian ==
  (fn.op = "snakePath" /\ fn.pc = "done" /\ fn.size >= 1)
  => /\ IsHamiltonianPath(fn.path, fn.size)
     /\ \A r \in 0..(fn.size - 1), c \in 0..(fn.size - 1) :
          fn.path[(r * fn.size) + c + 1] =
            Cell(r, IF r % 2 = 0 THEN c ELSE fn.size - 1 - c)
     /\ \A r \in 1..(fn.size - 1) :
          GridDistance(fn.path[r * fn.size], fn.path[(r * fn.size) + 1]) = 1

\* the snake path of the 4 x 4 grid goes from the end of row 0 down to the
\* end of row 1, and from the start of row 1 down to the start of row 2
C14_Witness ==
  /\ fn.op = "snakePath" /\ fn.pc = "done" /\ fn.size = 4
  /\ Len(fn.path) = 16
  /\ fn.path[4] = Cell(0, 3) /\ fn.path[5] = Cell(1, 3)
  /\ fn.path[8] = Cell(1, 0) /\ fn.path[9] = Cell(2, 0)

HashDone == fn.op = "hashDate" /\ fn.pc = "done"

\* the accumulator of hashDate after the first n code units of str
Accumulator(str, n) == HashLoop(<<0, 0>>, SubSeq(str, 1, n), 1)

\* C17: hashDate returns a non-negative integer for every string: the
\* accumulator is hash * 31 + charCode wrapped to 32 bits after each
\* character, and the absolute value returned lies in [0, 2^31], also when
\* the wrapped accumulator is -2^31.
C17_HashRange ==
  HashDone
  => LET acc == Accumulator(fn.str, Len(fn.str))
     IN  /\ \A n \in 1..Len(fn.str) :
              Accumulator(fn.str, n) =
                Add32(Imul(Accumulator(fn.str, n - 1), <<0, 31>>), <<0, fn.str[n]>>)
         /\ fn.hash[1] \in 0..(W16 \div 2) /\ fn.hash[2] \in 0..(W16 - 1)
         /\ fn.hash[1] = W16 \div 2 => fn.hash[2] = 0
         /\ fn.hash = acc \/ Add32(fn.hash, acc) = <<0, 0>>
         /\ acc[1] < W16 \div 2 => fn.hash = acc

\* the string "GydZG_" wraps the accumulator to -2^31 and 2^31 is returned
C17_Witness ==
  /\ HashDone
  /\ fn.str = <<71, 121, 100, 90, 71, 95>>
  /\ Accumulator(fn.str, 6) = <<W16 \div 2, 0>>
  /\ fn.hash = <<W16 \div 2, 0>>

\* the day of the week of the calendar date written in dateStr:
\* 0 = Sunday .. 6 = Saturday (1970-01-01 was a Thursday)
DayOfWeek(dateStr) ==
  (DaysFromCivil(DateYear(dateStr), DateMonth(dateStr), DateDay(dateStr)) + 4) % 7

\* C15: for a seed string of the form YYYY-MM-DD and no override,
\* generatePuzzle takes difficulty and size from the day of the week of
\* that date alone: Monday to Wednesday easy / 5, Thursday and Friday
\* medium / 6, Saturday and Sunday hard / 7; so "2024-01-01" (a Monday)
\* always gives easy / 5 and "2024-01-06" (a Saturday) always gives hard.
C15_DateDifficulty ==
  \A p \in Calls :
    (Returned(p) /\ calls[p].override = "none" /\ LooksLikeDate(calls[p].seedStr)
       /\ DateMonth(calls[p].seedStr) \in 1..12 /\ DateDay(calls[p].seedStr) \in 1..31)
    => LET day  == DayOfWeek(calls[p].seedStr)
           tier == IF day \in 1..3 THEN <<"easy", 5>>
                   ELSE IF day \in 4..5 THEN <<"medium", 6>>
                   ELSE <<"hard", 7>>
       IN  <<calls[p].result.difficulty, calls[p].result.size>> = tier

\* what generatePuzzle(seedStr, override) returns when it runs alone
AloneResult(seedStr, override) ==
  RunAlone(CHOOSE c \in GeneratePuzzleEntry(seedStr, override,
                                            createRng(hashDate(seedStr)), tzWest) : TRUE).result

Unvisited(cell, size, visited) ==
  {x \in GridCells(size) : GridDistance(x, cell) = 1 /\ x \notin visited}

\* the cells of path before index n
CellsBefore(path, n) == {path[i] : i \in 1..(n - 1)}

\* cell is a candidate move from current with the fewest onward moves
MinimalMove(cell, current, size, visited) ==
  /\ cell \in Unvisited(current, size, visited)
  /\ \A x \in Unvisited(current, size, visited) :
       Cardinality(Unvisited(cell, size, visited))
         <= Cardinality(Unvisited(x, size, visited))

\* C18: at every step of an attempt of findHamiltonianPath the cell
\* appended to the path is an unvisited cell of the grid next to the
\* current cell, with the fewest unvisited neighbours among all candidate
\* moves, whatever the random source returns to the comparator for ties.
C18_Warnsdorff ==
  [][\A p \in Calls :
       (calls[p].pc = "walk" /\ calls'[p].pc = "walk"
          /\ Len(calls'[p].path) = Len(calls[p].path) + 1)
       => /\ calls'[p].path = Append(calls[p].path, calls'[p].current)
          /\ MinimalMove(calls'[p].current, calls[p].current, calls[p].size,
                         calls[p].visited)]_vars

\* the last move of a walk on the 5 x 5 grid had three candidates, two of
\* them with the lowest score and one with a higher score
C18_Witness ==
  LET c == calls[1]
      n == Len(c.path)
  IN  /\ c.pc = "walk" /\ c.size = 5 /\ n >= 3
      /\ LET visited == CellsBefore(c.path, n)
             cand    == Unvisited(c.path[n - 1], 5, visited)
             low     == {x \in cand : \A y \in cand :
                           Cardinality(Unvisited(x, 5, visited))
                             <= Cardinality(Unvisited(y, 5, visited))}
         IN  Cardinality(cand) = 3 /\ Cardinality(low) = 2 /\ c.path[n] \in low

\* the attempts a call has started: those of the searches that have
\* returned and those of the search under way
AttemptsSoFar(c) ==
  (IF Len(c.runs) >= 1 THEN c.runs[1].attempts ELSE 0)
  + (IF Len(c.runs) >= 2 THEN c.runs[2].attempts ELSE 0)
  + (IF Running(c) THEN c.attempt + 1 ELSE 0)

\* C19: findHamiltonianPath always terminates for size >= 1: it runs at
\* most maxAttempts attempts, each attempt starts from a fresh visited
\* grid and makes at most size * size - 1 moves (a move adds exactly one
\* cell to the path, which never shrinks), and an attempt ends at the
\* first dead end or when every cell is visited; generatePuzzle therefore
\* runs at most 70 attempts.
C19_Terminates ==
  /\ [](\A p \in Calls :
          LET c == calls[p]
          IN  (c.op # "none" /\ c.size >= 1) =>
                /\ Running(c) => c.attempt < c.maxAttempts
                /\ Len(c.path) <= c.size * c.size
                /\ Cardinality(c.visited) = Len(c.path)
                /\ c.op = "findHamiltonianPath" => AttemptsSoFar(c) <= c.maxAttempts
                /\ c.op = "generatePuzzle" => AttemptsSoFar(c) <= 70
                /\ Running(c) => AloneFrames(c) # {})
  /\ [][\A p \in Calls :
          LET c == calls[p]
              d == calls'[p]
          IN  (c.op # "none" /\ c.size >= 1 /\ d # c) =>
                /\ (c.pc = "attempt" /\ d.pc = "walk") =>
                     (Len(d.path) = 1 /\ d.visited = {d.path[1]})
                /\ (c.pc = "walk" /\ d.pc = "walk") =>
                     /\ Len(c.path) < c.size * c.size
                     /\ Unvisited(c.current, c.size, c.visited) # {}
                     /\ Len(d.path) = Len(c.path) + 1
                     /\ SubSeq(d.path, 1, Len(c.path)) = c.path
                /\ (c.pc = "walk" /\ d.pc # "walk") =>
                     \/ Len(c.path) = c.size * c.size
                     \/ Unvisited(c.current, c.size, c.visited) = {}
                /\ \/ d.pc = "done"
                   \/ AttemptsSoFar(d) > AttemptsSoFar(c)
                   \/ AttemptsSoFar(d) = AttemptsSoFar(c) /\ Len(d.path) > Len(c.path)]_vars
  /\ (calls[1].op = "findHamiltonianPath") ~> (calls[1].pc = "done")

\* the 70th attempt of a generatePuzzle call, the 50th of its second
\* search, has made its 24 moves on the 5 x 5 grid
C19_Witness ==
  /\ calls[1].op = "generatePuzzle" /\ calls[1].pc = "walk"
  /\ calls[1].stage = "extended" /\ calls[1].attempt = 49
  /\ AttemptsSoFar(calls[1]) = 70
  /\ Len(calls[1].path) = 25

\* C20: createRoom gives the levels the difficulties its comment
\* documents: easy, medium, hard for 3 levels and easy, easy, medium,
\* medium, hard for 5 levels.
C20_LevelCurve ==
  (fn.op = "createRoom" /\ fn.pc = "done")
  => /\ fn.count = 3 => fn.levels = <<"easy", "medium", "hard">>
     /\ fn.count = 5 => fn.levels = <<"easy", "easy", "medium", "medium", "hard">>

(***************************************************************************)
(* The room manager                                                        *)
(***************************************************************************)
\* C21: joinRoom adds a player exactly when the room exists and its status
\* is "waiting": the new player, at level 0, is put at the end of the
\* room's players and nothing else of the store changes.  For an unknown
\* room and for a room that is "playing" or "finished" it returns null (the
\* route answers 404), the store stays as it is and emitRoomUpdate is not
\* called.
C21_JoinRoom ==
  [][req'.route = "POST /room/join"
       => LET r == req'.roomId
          IN  IF r \in DOMAIN rooms /\ rooms[r].status = "waiting"
              THEN /\ req'.ret = "room"
                   /\ rooms' = [rooms EXCEPT ![r].players =
                                  Append(@, NewPlayer(req'.playerId))]
                   /\ \A q \in DOMAIN rooms :
                        \A i \in DOMAIN rooms[q].players :
                          rooms[q].players[i].id # req'.playerId
              ELSE /\ req'.ret = "null"
                   /\ req'.status = 404
                   /\ rooms' = rooms
                   /\ req'.emitted = 0]_vars

\* a room with two players that is under way has turned a third player away
C21_Witness ==
  /\ req.route = "POST /room/join" /\ req.ret = "null"
  /\ req.roomId \in DOMAIN rooms
  /\ rooms[req.roomId].status = "playing"
  /\ Len(rooms[req.roomId].players) = 2

\* C22: startGame sets the room to "playing" (and startedAt to the time of
\* the call) and returns true exactly when the room exists and the player
\* id given is the room's hostId; for another player id and for an unknown
\* room it returns false (the route answers 403), status, startedAt and the
\* rest of the store stay as they are and emitRoomUpdate is not called.
C22_StartGame ==
  [][req'.route = "POST /room/:id/start"
       => LET r == req'.roomId
          IN  IF r \in DOMAIN rooms /\ rooms[r].hostId = req'.playerId
              THEN /\ req'.ret = "true"
                   /\ rooms' = [rooms EXCEPT ![r].status = "playing",
                                             ![r].startedAt = clock'.ms]
              ELSE /\ req'.ret = "false"
                   /\ req'.status = 403
                   /\ rooms' = rooms
                   /\ req'.emitted = 0]_vars

\* a player of a waiting room who is not its host has asked to start it
C22_Witness ==
  /\ req.route = "POST /room/:id/start" /\ req.ret = "false"
  /\ req.roomId \in DOMAIN rooms
  /\ rooms[req.roomId].status = "waiting"
  /\ rooms[req.roomId].startedAt = NoTime
  /\ rooms[req.roomId].hostId # req.playerId
  /\ FindPlayer(rooms[req.roomId].players, req.playerId) # 0

\* C23: submitProgress raises the player's currentLevel by exactly one
\* when the levelIndex submitted is the player's currentLevel at the time
\* of the call, and only then: a submission for another level (a repeated
\* or stale one for an earlier level among them) changes no field of the
\* player.  No other player of the room, and no other room, is changed.
C23_SubmitProgress ==
  [][req'.route = "POST /room/:id/progress"
       => LET r == req'.roomId
          IN  IF r \notin DOMAIN rooms \/ FindPlayer(rooms[r].players, req'.playerId) = 0
              THEN rooms' = rooms /\ req'.ret = "null"
              ELSE LET i == FindPlayer(rooms[r].players, req'.playerId)
                       before == rooms[r].players
                       after  == rooms'[r].players
                   IN  /\ DOMAIN rooms' = DOMAIN rooms
                       /\ DOMAIN after = DOMAIN before
                       /\ IF req'.levelIndex = before[i].currentLevel
                          THEN after[i].currentLevel = before[i].currentLevel + 1
                          ELSE after[i] = before[i]
                       /\ \A j \in DOMAIN before : j # i => after[j] = before[j]
                       /\ \A q \in DOMAIN rooms : q # r => rooms'[q] = rooms[q]]_vars

\* a player two levels on has sent the first level again, in a room where
\* another player is still at the start
C23_Witness ==
  /\ req.route = "POST /room/:id/progress" /\ req.ret = "room"
  /\ req.levelIndex = 0
  /\ \E i, j \in DOMAIN rooms[req.roomId].players :
       /\ rooms[req.roomId].players[i].id = req.playerId
       /\ rooms[req.roomId].players[i].currentLevel = 2
       /\ rooms[req.roomId].players[j].currentLevel = 0

\* C24: the API advances a player's room progress only after validation
\* passes: among the calls the handler of POST /room/:id/progress makes,
\* every call of submitProgress comes after a call of validatePath that
\* returned valid.
C24_ValidatedFirst ==
  req.route = "POST /room/:id/progress"
    => \A i \in DOMAIN req.trace :
         req.trace[i].call = "submitProgress"
           => \E j \in 1..(i - 1) :
                req.trace[j].call = "validatePath" /\ req.trace[j].ok

\* the room object held under code r before and after the step is the same
\* (createRoom has not put a new room under the code)
SameRoom(r) ==
  /\ r \in DOMAIN rooms /\ r \in DOMAIN rooms'
  /\ rooms'[r].hostId = rooms[r].hostId

\* C28: a room's status only moves forward: whatever the sequence of
\* createRoom, joinRoom, startGame and submitProgress calls, a step leaves
\* the status of a room as it is, or takes it from "waiting" to "playing",
\* or from "playing" to "finished".
C28_StatusForward ==
  [][\A r \in RoomIds :
       SameRoom(r)
         => \/ rooms'[r].status = rooms[r].status
            \/ rooms[r].status = "waiting" /\ rooms'[r].status = "playing"
            \/ rooms[r].status = "playing" /\ rooms'[r].status = "finished"]_vars

\* C29: in every room and for every player 0 <= currentLevel <=
\* levels.length, and finished is true exactly when currentLevel equals
\* levels.length; a submitProgress call for a player who has finished
\* changes neither the player's currentLevel nor the finishTime.
C29_LevelRange ==
  /\ [](\A r \in DOMAIN rooms : \A i \in DOMAIN rooms[r].players :
          LET player == rooms[r].players[i]
          IN  /\ 0 <= player.currentLevel
              /\ player.currentLevel <= Len(rooms[r].levels)
              /\ player.finished <=> (player.currentLevel = Len(rooms[r].levels)))
  /\ [][\A r \in RoomIds :
          (SameRoom(r) /\ req'.route = "POST /room/:id/progress")
            => \A i \in DOMAIN rooms[r].players :
                 rooms[r].players[i].finished
                   => /\ rooms'[r].players[i].currentLevel = rooms[r].players[i].currentLevel
                      /\ rooms'[r].players[i].finishTime = rooms[r].players[i].finishTime]_vars

(***************************************************************************)
(* generatePuzzle and validatePath together                                *)
(***************************************************************************)
\* C27: every puzzle generatePuzzle returns is solvable: the path its
\* anchors were selected from (found by the primary search, by the extended
\* search, or the snake path) is accepted by validatePath with the puzzle's
\* anchors and size, for every seed, every override and every sequence of
\* values of the random source.
C27_Solvable ==
  \A p \in Calls :
    (Returned(p) /\ calls[p].result.kind = "puzzle")
      => validatePath(calls[p].result.path, calls[p].result.anchors,
                      calls[p].result.size) = Valid

\* the primary search gave up and the extended search found the path
C27_Witness ==
  /\ Returned(1)
  /\ calls[1].result.kind = "puzzle"
  /\ calls[1].result.source = "extended"
  /\ Len(calls[1].result.path) = calls[1].result.size * calls[1].result.size
  /\ calls[1].runs[1].found = FALSE

(***************************************************************************)
(* The leaderboard                                                         *)
(***************************************************************************)
\* the list kept for a date, empty when there is none
ListOf(boards, date) == IF date \in DOMAIN boards THEN boards[date] ELSE <<>>

\* how many times entry e is on the list
Count(entries, e) == Cardinality({k \in DOMAIN entries : entries[k] = e})

\* C25: after any sequence of POST /leaderboard requests each day's list
\* is sorted by timeMs ascending and holds at most 50 entries, and an entry
\* gets on the list of a day only through a submission whose path
\* validatePath accepts against that day's puzzle: such a submission
\* returns success and puts its entry on the list (the list, sorted, is cut
\* to 50), a submission whose path is rejected returns success = false,
\* and leaves the list as it was; the lists of the other days stay as they
\* are in both cases.
C25_Leaderboard ==
  /\ [](\A date \in DOMAIN leaderboards :
          /\ Len(leaderboards[date]) <= 50
          /\ \A k \in 1..(Len(leaderboards[date]) - 1) :
               leaderboards[date][k].timeMs <= leaderboards[date][k + 1].timeMs)
  /\ [][(req'.route = "POST /leaderboard" /\ clock' = clock)
          => LET today  == Days[clock.day]
                 before == ListOf(leaderboards, today)
                 after  == ListOf(leaderboards', today)
                 entry  == [name |-> req'.name, timeMs |-> req'.timeMs]
             IN  /\ req'.date = today
                 /\ \A date \in DOMAIN leaderboards' :
                      date # today => /\ date \in DOMAIN leaderboards
                                      /\ leaderboards'[date] = leaderboards[date]
                 /\ IF Validations[clock.day][req'.path].valid
                    THEN /\ req'.ret = "success"
                         /\ Len(after) = IF Len(before) < 50 THEN Len(before) + 1 ELSE 50
                         /\ \A e \in {after[k] : k \in DOMAIN after} :
                              Count(after, e)
                                <= Count(before, e) + (IF e = entry THEN 1 ELSE 0)
                    ELSE /\ req'.ret # "success"
                         /\ after = before]_vars

\* on the second day the list is full of entries of timeMs 1, and the
\* accepted submission of timeMs 2 that came last was cut off again
C25_Witness ==
  /\ clock.day = 2
  /\ Len(ListOf(leaderboards, Days[1])) > 0
  /\ Len(ListOf(leaderboards, Days[2])) = 50
  /\ \A k \in 1..50 : leaderboards[Days[2]][k].timeMs = 1
  /\ req.route = "POST /leaderboard" /\ req.ret = "success" /\ req.timeMs = 2

(***************************************************************************)
(* The heartbeat                                                           *)
(***************************************************************************)
\* the step is a tick of the heartbeat
IsTick == wss'.beat # wss.beat

\* C26: a socket of wss.clients that was there at the tick before and has
\* sent no pong since is terminated at this tick; a socket that has no
\* ping unanswered at a tick (it answered each ping before the next tick,
\* or has not been pinged yet) is not terminated at that tick, and nothing
\* but a tick that finds isAlive false ends a socket in the heartbeat's name.
C26_Heartbeat ==
  [][\A s \in SocketIds :
       LET socket == wss.sockets[s]
       IN  /\ (IsTick /\ InClients(socket) /\ socket.ticks >= 1 /\ ~socket.ponged)
                => /\ wss'.sockets[s].state = "gone"
                   /\ wss'.sockets[s].endedBy = "heartbeat"
           /\ (IsTick /\ socket.state = "open" /\ ~socket.pingOpen)
                => wss'.sockets[s].state = "open"
           /\ (wss'.sockets[s].endedBy = "heartbeat" /\ socket.endedBy # "heartbeat")
                => IsTick /\ socket.pingOpen]_vars

\* one socket went silent and was terminated by the heartbeat while another,
\* which answered its pings, has been through two ticks and more and is open
C26_Witness ==
  \E s, t \in SocketIds :
    /\ wss.sockets[s].endedBy = "heartbeat"
    /\ wss.sockets[t].state = "open"
    /\ wss.sockets[t].ticks = 2
    /\ wss.sockets[t].ponged

(***************************************************************************)
(* The grid component and the validator                                    *)
(***************************************************************************)
\* C30: after any sequence of pointer events, undo and reset the path
\* drawn in ZipGrid is empty, or starts on the cell of anchor 1, holds only
\* cells of the grid, no cell twice, and every two consecutive cells are
\* next to each other on a row or a column; and a path handed to
\* onComplete is accepted by validatePath with the anchors and the size of
\* the same puzzle.
C30_DrawnPath ==
  grid.mounted
    => /\ \/ grid.path = <<>>
          \/ /\ IsAnchor1(grid.anchors, grid.path[1].row, grid.path[1].col)
             /\ \A k \in DOMAIN grid.path : InGrid(grid.path[k], grid.size)
             /\ \A j, k \in DOMAIN grid.path :
                  j # k => grid.path[j] # grid.path[k]
             /\ \A k \in 2..Len(grid.path) :
                  GridDistance(grid.path[k - 1], grid.path[k]) = 1
       /\ grid.reported
            => validatePath(grid.completed, grid.anchors, grid.size) = Valid

\* the daily 5 x 5 puzzle has been solved on the grid: its 25 cells were
\* handed to onComplete
C30_Witness ==
  /\ grid.mounted /\ grid.size = 5
  /\ grid.reported /\ grid.isComplete
  /\ Len(grid.completed) = 25

====
